---- MODULE Spec2Model ----
(***************************************************************************)
(* cobblestone-rs: scrobbling of Rockbox playback logs.                    *)
(*                                                                         *)
(* The module holds one state machine per part of the program:            *)
(*   SpecEligible  is_scrobble_eligible applied to playback samples        *)
(*   SpecSign      sign_params applied to reordered parameter lists        *)
(*   SpecResponse  the interpretation of one track.scrobble response       *)
(*   Spec          a whole scrobble run: scrobble_for_accounts driving     *)
(*                 ScrobbleClient::new and ScrobbleClient::scrobble_tracks *)
(*   SpecConfig    add_account and remove_account on a configuration       *)
(*   SpecLog       parse_playback_log reading a log line by line           *)
(*   SpecTagCache  a TagCache: new, get_track_info, close                  *)
(*   SpecBuild     build_scrobble_tracks joining samples and metadata      *)
(*   SpecScrobble  handle_scrobble: the scrobble command from end to end   *)
(* Each specification leaves the variables it does not drive at rest.      *)
(***************************************************************************)
EXTENDS Integers, Sequences, FiniteSets, TLC

VARIABLES
    \* is_scrobble_eligible
    sample,         \* the PlaybackEntry under test: [elapsed_ms, total_ms]
    verdict,        \* "idle" | "pending" | "accept" | "reject"
    \* sign_params
    params,         \* the parameter list, a sequence of [name, value]
    secret,         \* the shared secret
    baseline,       \* the signature of the list in its first order
    signature,      \* the signature of the list in its current order
    signPhase,      \* "idle" | "new" | "signed"
    \* the interpretation of one track.scrobble response
    payload,        \* the response text, as the JSON value it parses to
    stage,          \* "idle" | "received" | "api_checked" | "done"
    outcome,        \* the Result<()> of scrobble_track
    \* a scrobble run
    services,       \* Config.services: the services with API keys configured
    accounts,       \* the selected accounts, a sequence of [service]
    tracks,         \* the records to submit
    pc,             \* where scrobble_for_accounts stands
    acct,           \* the index of the account of the for loop
    trk,            \* the index of the track of scrobble_tracks' for loop
    session_key,    \* ScrobbleClient.session_key of the live client
    inflight,       \* the requests sent and not yet answered
    sent,           \* every request sent, in the order of sending
    errors,         \* scrobble_tracks' error list, by index of the record
    results,        \* the outcome of each record scrobble_tracks has submitted
    failures,       \* scrobble_for_accounts' failure counter
    acctState,      \* per account: Unauthenticated, Authenticated, Failed, NoKeys
    obtained,       \* per account: the session key its exchange returned
    submitted,      \* per account: the submissions that have been answered
    counted,        \* per account: what it has added to failures
    \* the account list of the configuration
    config,         \* Config: [accounts], a sequence of Account
    op,             \* the last call on the configuration and what it returned
    \* parse_playback_log
    raw,            \* the text of playback.log
    zone,           \* the local time zone: seconds east of UTC
    line_no,        \* the lines the for loop has consumed
    log_entries,    \* `entries`: the PlaybackEntry list built so far
    logPhase,       \* "idle" | "reading" | "returned"
    \* the tag cache
    disk,           \* the files of the .rockbox directory, by name
    tagcache,       \* the TagCache: None before new, its fields after
    lookup,         \* the last get_track_info call: its path and its result
    scans,          \* every scan of the reverse-index file, in order
    \* build_scrobble_tracks
    playback_entries, \* the samples handed to build_scrobble_tracks
    entry_no,       \* the samples the for loop has consumed
    built,          \* `tracks`: the records built so far
    missing,        \* the paths without metadata
    queried,        \* the get_track_info calls made: sample number and result
    buildPhase,     \* "idle" | "building" | "returned" | "failed"
    \* handle_scrobble
    args,           \* ScrobbleArgs: [service, username, truncate, dry_run]
    cmdPhase        \* where handle_scrobble stands

eligVars == <<sample, verdict>>
signVars == <<params, secret, baseline, signature, signPhase>>
respVars == <<payload, stage, outcome>>
runVars == <<services, accounts, tracks, pc, acct, trk, session_key, inflight, sent,
             errors, results, failures, acctState, obtained, submitted, counted>>
cfgVars == <<config, op>>
logVars == <<raw, zone, line_no, log_entries, logPhase>>
tcVars == <<disk, tagcache, lookup, scans>>
buildVars == <<playback_entries, entry_no, built, missing, queried, buildPhase>>
cmdVars == <<args, cmdPhase>>
fileVars == <<logVars, tcVars, buildVars>>
otherVars == <<eligVars, signVars, respVars, cfgVars, fileVars, cmdVars>>
vars == <<eligVars, signVars, respVars, runVars, cfgVars, fileVars, cmdVars>>

-----------------------------------------------------------------------------
(* Rust integer arithmetic *)

Min(a, b) == IF a <= b THEN a ELSE b

Abs(a) == IF a < 0 THEN 0 - a ELSE a

\* i64 `/`: the quotient truncated toward zero.
TruncDiv(a, b) ==
    IF b > 0 /\ a < 0 THEN (a + (b - 1)) \div b
    ELSE IF (a >= 0) = (b > 0) THEN Abs(a) \div Abs(b) ELSE 0 - (Abs(a) \div Abs(b))

-----------------------------------------------------------------------------
(* scrobble.rs: the eligibility filter *)

MIN_TRACK_SECONDS == 30

MAX_MIN_PLAYED_MS == 240000

\* is_scrobble_eligible with the minimum play time compared strictly.
is_scrobble_eligible_strict(entry) ==
    IF entry.total_ms <= 0 THEN FALSE
    ELSE LET total_seconds == TruncDiv(entry.total_ms, 1000)
         IN  IF total_seconds < MIN_TRACK_SECONDS THEN FALSE
             ELSE LET min_played_ms ==
                          Min(TruncDiv(entry.total_ms, 2), MAX_MIN_PLAYED_MS)
                  IN  entry.elapsed_ms > min_played_ms

is_scrobble_eligible(entry) ==
    IF entry.total_ms <= 0 THEN FALSE
    ELSE LET total_seconds == TruncDiv(entry.total_ms, 1000)
         IN  IF total_seconds < MIN_TRACK_SECONDS THEN FALSE
             ELSE LET min_played_ms ==
                          Min(TruncDiv(entry.total_ms, 2), MAX_MIN_PLAYED_MS)
                  IN  entry.elapsed_ms >= min_played_ms

\* The samples: a grid of GridMs steps and the values around every threshold.
GridMs == 15000
MaxTotalSteps == 41
MaxElapsedSteps == 21

TotalValues ==
    {k * GridMs : k \in -1 .. MaxTotalSteps}
        \cup {b + d : b \in {0, 1000, 30000, 480000}, d \in -1 .. 1}
        \cup {29000}

ElapsedValues ==
    {k * GridMs : k \in -1 .. MaxElapsedSteps}
        \cup {b + d : b \in {0, 15000, 240000}, d \in -1 .. 1}
        \cup {239000}

EligIdle == sample = [elapsed_ms |-> 0, total_ms |-> 0] /\ verdict = "idle"

CheckEligible ==
    /\ verdict = "pending"
    /\ verdict' = IF is_scrobble_eligible(sample) THEN "accept" ELSE "reject"
    /\ UNCHANGED <<sample, signVars, respVars, runVars, cfgVars, fileVars, cmdVars>>

-----------------------------------------------------------------------------
(* service.rs: request signing.  Names, values and the secret are byte     *)
(* strings: sequences of byte values.                                      *)

\* Ordering::Less of the byte-wise String comparison a.cmp(b).
RECURSIVE BytesLess(_, _)
BytesLess(a, b) ==
    IF b = <<>> THEN FALSE
    ELSE IF a = <<>> THEN TRUE
    ELSE IF Head(a) # Head(b) THEN Head(a) < Head(b)
    ELSE BytesLess(Tail(a), Tail(b))

\* One step of the stable sort: p goes after the elements not greater than it.
RECURSIVE InsertByName(_, _)
InsertByName(p, sorted) ==
    IF sorted = <<>> THEN <<p>>
    ELSE IF BytesLess(p.name, Head(sorted).name) THEN <<p>> \o sorted
    ELSE <<Head(sorted)>> \o InsertByName(p, Tail(sorted))

\* sorted.sort_by(|a, b| a.0.cmp(&b.0)): stable, by name only.
RECURSIVE SortByName(_)
SortByName(ps) ==
    IF ps = <<>> THEN <<>>
    ELSE InsertByName(ps[Len(ps)], SortByName(SubSeq(ps, 1, Len(ps) - 1)))

RECURSIVE ConcatPairs(_)
ConcatPairs(ps) ==
    IF ps = <<>> THEN <<>>
    ELSE Head(ps).name \o Head(ps).value \o ConcatPairs(Tail(ps))

\* md5::compute followed by {:x}: the digest stands for the text it is taken of.
Md5Hex(text) == [md5 |-> text]

\* sign_params without the sort: the pairs are concatenated in input order.
sign_params_unsorted(ps, sec) == Md5Hex(ConcatPairs(ps) \o sec)

sign_params(ps, sec) == Md5Hex(ConcatPairs(SortByName(ps)) \o sec)

\* "B", "a", "aB", "ab", "b": names with shared prefixes and mixed case.
ParamNames == {<<66>>, <<97>>, <<97, 66>>, <<97, 98>>, <<98>>}

\* "", "1", "b2"
ParamValues == {<<>>, <<49>>, <<98, 50>>}

\* "s", "cobblestone" shortened to "co"
Secrets == {<<115>>, <<99, 111>>}

MaxParams == 3

\* The lists the program signs: every name occurs once (scrobble_track and
\* fetch_mobile_session build their lists from distinct literals).
ParamLists ==
    UNION {
        {ps \in [1 .. n -> [name : ParamNames, value : ParamValues]] :
            \A i, j \in 1 .. n : i # j => ps[i].name # ps[j].name}
        : n \in 0 .. MaxParams}

SignIdle ==
    /\ params = <<>>
    /\ secret = <<>>
    /\ baseline = Md5Hex(<<>>)
    /\ signature = Md5Hex(<<>>)
    /\ signPhase = "idle"

\* The first signing of the list.
Sign ==
    /\ signPhase = "new"
    /\ baseline' = sign_params(params, secret)
    /\ signature' = sign_params(params, secret)
    /\ signPhase' = "signed"
    /\ UNCHANGED <<params, secret, eligVars, respVars, runVars, cfgVars, fileVars, cmdVars>>

\* The caller pushes the same parameters in another order and signs again.
Reorder ==
    /\ signPhase = "signed"
    /\ \E i \in 1 .. Len(params) - 1 :
          /\ params' = [params EXCEPT ![i] = params[i + 1], ![i + 1] = params[i]]
          /\ signature' = sign_params(params', secret)
    /\ UNCHANGED <<secret, baseline, signPhase, eligVars, respVars, runVars,
                   cfgVars, fileVars, cmdVars>>

-----------------------------------------------------------------------------
(* service.rs: JSON values.  A text is a sequence of one-character strings. *)

JNull == [t |-> "null"]
JNum(n) == [t |-> "num", n |-> n]
JStr(s) == [t |-> "str", s |-> s]
JArr(e) == [t |-> "arr", e |-> e]
JObj(m) == [t |-> "obj", m |-> m]

\* What a lookup of a key that is not there gives; never part of a document.
Missing == [t |-> "missing"]

\* A response body that is not JSON at all.
NotJson == [t |-> "invalid"]

\* The object holding the keys of f whose value is not Missing.
MkObj(f) == JObj([k \in {x \in DOMAIN f : f[x] # Missing} |-> f[k]])

\* Option and Result
None == [some |-> FALSE]
Some(x) == [some |-> TRUE, v |-> x]
Err == [ok |-> FALSE]
Ok(x) == [ok |-> TRUE, v |-> x]

\* serde_json::Value::get(key): Some only on an object that has the key.
Get(v, key) ==
    IF v.t = "obj" /\ key \in DOMAIN v.m THEN v.m[key] ELSE Missing

\* Value::as_str
AsStr(v) == IF v.t = "str" THEN Some(v.s) ELSE None

\* Value::as_u64: the numbers of the model are integers, all below 2^32.
AsU64(v) == IF v.t = "num" /\ v.n >= 0 THEN Some(v.n) ELSE None

DigitChars == <<"0", "1", "2", "3", "4", "5", "6", "7", "8", "9">>

IsDigit(c) == \E d \in 1 .. 10 : DigitChars[d] = c

DigitValue(c) == (CHOOSE d \in 1 .. 10 : DigitChars[d] = c) - 1

RECURSIVE DigitsValue(_, _)
DigitsValue(s, acc) ==
    IF s = <<>> THEN acc ELSE DigitsValue(Tail(s), acc * 10 + DigitValue(Head(s)))

\* str::parse::<u32>: an optional "+", then one or more decimal digits.
ParseU32(s) ==
    LET digits == IF s # <<>> /\ Head(s) = "+" THEN Tail(s) ELSE s
    IN  IF digits = <<>> \/ \E i \in 1 .. Len(digits) : ~IsDigit(digits[i])
        THEN Err
        ELSE Ok(DigitsValue(digits, 0))

\* u32::to_string
RECURSIVE U32ToString(_)
U32ToString(n) ==
    IF n < 10 THEN <<DigitChars[n + 1]>>
    ELSE U32ToString(n \div 10) \o <<DigitChars[(n % 10) + 1]>>

S_unknown == <<"u", "n", "k", "n", "o", "w", "n">>
S_rejected == <<"S", "c", "r", "o", "b", "b", "l", "e", " ",
                "r", "e", "j", "e", "c", "t", "e", "d">>
S_api_error == <<"A", "P", "I", " ", "e", "r", "r", "o", "r">>
S_91 == <<"9", "1">>
S_null == <<"n", "u", "l", "l">>

\* The Display of the `error` value inside "API error {error}: {message}".
JsonDisplay(v) ==
    IF v.t = "num" /\ v.n >= 0 THEN U32ToString(v.n)
    ELSE IF v.t = "num" THEN <<"-">> \o U32ToString(0 - v.n)
    ELSE IF v.t = "str" THEN <<"\"">> \o v.s \o <<"\"">>
    ELSE S_null

\* The Result<()> of a submission.
Success == [ok |-> TRUE, kind |-> "Ok", code |-> <<>>, message |-> <<>>]
Failure(kind, code, message) ==
    [ok |-> FALSE, kind |-> kind, code |-> code, message |-> message]

-----------------------------------------------------------------------------
(* service.rs: the typed shape matcher, serde's derived Deserialize.  A     *)
(* derived struct is read from an object by key (unknown keys skipped) and  *)
(* from an array by position; an untagged enum takes the first variant     *)
(* that reads the buffered value without error.                            *)

\* Option<T>: a key that is absent (#[serde(default)]) or null is None.
\* r is what reading v as a T gives.
DeOption(v, r) ==
    IF v = Missing \/ v = JNull THEN Ok(None)
    ELSE IF r.ok THEN Ok(Some(r.v)) ELSE Err

DeString(v) == IF v.t = "str" THEN Ok(v.s) ELSE Err

\* The i-th element of an array read by position, Missing past its end.
At(v, i) == IF i <= Len(v.e) THEN v.e[i] ELSE Missing

\* struct IgnoredMessage { #text: Option<String>, code: Option<String> }
DeIgnoredMessage(v) ==
    LET textField == IF v.t = "arr" THEN At(v, 1) ELSE Get(v, "#text")
        codeField == IF v.t = "arr" THEN At(v, 2) ELSE Get(v, "code")
        text == DeOption(textField, DeString(textField))
        code == DeOption(codeField, DeString(codeField))
    IN  IF v.t \notin {"obj", "arr"} THEN Err
        ELSE IF v.t = "arr" /\ Len(v.e) > 2 THEN Err
        ELSE IF ~text.ok \/ ~code.ok THEN Err
        ELSE Ok([text |-> text.v, code |-> code.v])

\* enum IgnoredMessageField { Object(IgnoredMessage), Text(String), Number(u32) }
DeIgnoredMessageField(v) ==
    LET object == DeIgnoredMessage(v)
    IN  IF object.ok THEN Ok([variant |-> "Object", message |-> object.v])
        ELSE IF v.t = "str" THEN Ok([variant |-> "Text", text |-> v.s])
        ELSE IF v.t = "num" /\ v.n >= 0 THEN Ok([variant |-> "Number", number |-> v.n])
        ELSE Err

\* struct ScrobbleEntry { ignoredMessage: Option<IgnoredMessageField> }
DeScrobbleEntry(v) ==
    LET value == IF v.t = "arr" THEN At(v, 1) ELSE Get(v, "ignoredMessage")
        field == DeOption(value, DeIgnoredMessageField(value))
    IN  IF v.t \notin {"obj", "arr"} THEN Err
        ELSE IF v.t = "arr" /\ Len(v.e) > 1 THEN Err
        ELSE IF ~field.ok THEN Err
        ELSE Ok([ignored_message |-> field.v])

\* enum ScrobbleEntries { One(ScrobbleEntry), Many(Vec<ScrobbleEntry>) }
DeScrobbleEntries(v) ==
    LET one == DeScrobbleEntry(v)
    IN  IF one.ok THEN Ok([variant |-> "One", entry |-> one.v])
        ELSE IF v.t = "arr" /\ \A i \in 1 .. Len(v.e) : DeScrobbleEntry(v.e[i]).ok
        THEN Ok([variant |-> "Many",
                 entries |-> [i \in 1 .. Len(v.e) |-> DeScrobbleEntry(v.e[i]).v]])
        ELSE Err

\* deserialize_u32_string_or_number: a string is parsed, a number taken as is.
deserialize_u32_string_or_number(v) ==
    IF v.t = "str" THEN ParseU32(v.s)
    ELSE IF v.t = "num" /\ v.n >= 0 THEN Ok(v.n)
    ELSE Err

\* struct ScrobbleAttr { accepted: u32, ignored: u32 }: both are required.
DeScrobbleAttr(v) ==
    LET accepted == deserialize_u32_string_or_number(
                        IF v.t = "arr" THEN At(v, 1) ELSE Get(v, "accepted"))
        ignored == deserialize_u32_string_or_number(
                        IF v.t = "arr" THEN At(v, 2) ELSE Get(v, "ignored"))
    IN  IF v.t \notin {"obj", "arr"} THEN Err
        ELSE IF v.t = "arr" /\ Len(v.e) > 2 THEN Err
        ELSE IF ~accepted.ok \/ ~ignored.ok THEN Err
        ELSE Ok([accepted |-> accepted.v, ignored |-> ignored.v])

\* struct Scrobbles { @attr: Option<ScrobbleAttr>, scrobble: Option<ScrobbleEntries> }
DeScrobbles(v) ==
    LET attrField == IF v.t = "arr" THEN At(v, 1) ELSE Get(v, "@attr")
        scrobbleField == IF v.t = "arr" THEN At(v, 2) ELSE Get(v, "scrobble")
        attr == DeOption(attrField, DeScrobbleAttr(attrField))
        scrobble == DeOption(scrobbleField, DeScrobbleEntries(scrobbleField))
    IN  IF v.t \notin {"obj", "arr"} THEN Err
        ELSE IF v.t = "arr" /\ Len(v.e) > 2 THEN Err
        ELSE IF ~attr.ok \/ ~scrobble.ok THEN Err
        ELSE Ok([attr |-> attr.v, scrobble |-> scrobble.v])

\* struct ScrobbleResponse { scrobbles: Option<Scrobbles> }
DeScrobbleResponse(v) ==
    LET value == IF v.t = "arr" THEN At(v, 1) ELSE Get(v, "scrobbles")
        scrobbles == DeOption(value, DeScrobbles(value))
    IN  IF v.t \notin {"obj", "arr"} THEN Err
        ELSE IF v.t = "arr" /\ Len(v.e) > 1 THEN Err
        ELSE IF ~scrobbles.ok THEN Err
        ELSE Ok([scrobbles |-> scrobbles.v])

\* ScrobbleEntries::first_ignored_message
first_ignored_message(entries) ==
    IF entries.variant = "One" THEN entries.entry.ignored_message
    ELSE IF entries.entries = <<>> THEN None
    ELSE entries.entries[1].ignored_message

-----------------------------------------------------------------------------
(* service.rs: the interpretation of a response *)

\* check_api_error that takes an `error` of null for no error.
check_api_error_nonnull(p) ==
    IF p = NotJson THEN Failure("ParseError", <<>>, <<>>)
    ELSE IF Get(p, "error") \notin {Missing, JNull}
    THEN LET message == AsStr(Get(p, "message"))
         IN  Failure("ApiError", JsonDisplay(Get(p, "error")),
                     IF message.some THEN message.v ELSE S_api_error)
    ELSE Success

check_api_error(p) ==
    IF p = NotJson THEN Failure("ParseError", <<>>, <<>>)
    ELSE IF Get(p, "error") # Missing
    THEN LET message == AsStr(Get(p, "message"))
         IN  Failure("ApiError", JsonDisplay(Get(p, "error")),
                     IF message.some THEN message.v ELSE S_api_error)
    ELSE Success

\* The (code, message) of the ignored message the typed matcher found.
StructIgnored(ignored) ==
    IF ~ignored.some THEN <<S_unknown, S_rejected>>
    ELSE IF ignored.v.variant = "Object"
    THEN <<IF ignored.v.message.code.some THEN ignored.v.message.code.v ELSE S_unknown,
           IF ignored.v.message.text.some THEN ignored.v.message.text.v ELSE S_rejected>>
    ELSE IF ignored.v.variant = "Text" THEN <<S_unknown, ignored.v.text>>
    ELSE <<S_unknown, U32ToString(ignored.v.number)>>

\* check_scrobble_from_struct that looks at the ignored message before the counters.
check_scrobble_from_struct_ignored_first(parsed) ==
    IF ~parsed.scrobbles.some THEN Success
    ELSE LET scrobbles == parsed.scrobbles.v
             accepted == IF scrobbles.attr.some THEN scrobbles.attr.v.accepted ELSE 0
             ignored == IF scrobbles.attr.some THEN scrobbles.attr.v.ignored ELSE 0
             message == IF scrobbles.scrobble.some
                        THEN first_ignored_message(scrobbles.scrobble.v)
                        ELSE None
             pair == StructIgnored(message)
         IN  IF pair[1] = S_91 THEN Success
             ELSE IF message.some THEN Failure("ScrobbleRejected", pair[1], pair[2])
             ELSE IF accepted > 0 /\ ignored = 0 THEN Success
             ELSE Failure("ScrobbleRejected", pair[1], pair[2])

check_scrobble_from_struct(parsed) ==
    IF ~parsed.scrobbles.some THEN Success
    ELSE LET scrobbles == parsed.scrobbles.v
             accepted == IF scrobbles.attr.some THEN scrobbles.attr.v.accepted ELSE 0
             ignored == IF scrobbles.attr.some THEN scrobbles.attr.v.ignored ELSE 0
             message == IF scrobbles.scrobble.some
                        THEN first_ignored_message(scrobbles.scrobble.v)
                        ELSE None
             pair == StructIgnored(message)
         IN  IF accepted > 0 /\ ignored = 0 THEN Success
             ELSE IF pair[1] = S_91 THEN Success
             ELSE Failure("ScrobbleRejected", pair[1], pair[2])

\* parse_u32_value: as_u64 then u32::try_from, else as_str then parse.
parse_u32_value(v) ==
    IF AsU64(v).some THEN AsU64(v)
    ELSE IF AsStr(v).some /\ ParseU32(AsStr(v).v).ok THEN Some(ParseU32(AsStr(v).v).v)
    ELSE None

\* first_scrobble_value, Missing for None
first_scrobble_value(v) ==
    IF v.t = "arr" THEN (IF v.e = <<>> THEN Missing ELSE v.e[1])
    ELSE IF v.t = "obj" THEN v
    ELSE Missing

ignored_message_from_value(v) ==
    IF AsStr(v).some THEN <<S_unknown, AsStr(v).v>>
    ELSE IF AsU64(v).some THEN <<S_unknown, U32ToString(AsU64(v).v)>>
    ELSE <<IF AsStr(Get(v, "code")).some THEN AsStr(Get(v, "code")).v ELSE S_unknown,
           IF AsStr(Get(v, "#text")).some THEN AsStr(Get(v, "#text")).v ELSE S_rejected>>

\* A counter of @attr, 0 when @attr or the counter is absent or unreadable.
ValueCounter(scrobbles, name) ==
    LET counter == Get(Get(scrobbles, "@attr"), name)
    IN  IF counter # Missing /\ parse_u32_value(counter).some
        THEN parse_u32_value(counter).v
        ELSE 0

check_scrobble_from_value(p) ==
    IF Get(p, "scrobbles") = Missing THEN Success
    ELSE LET scrobbles == Get(p, "scrobbles")
             accepted == ValueCounter(scrobbles, "accepted")
             ignored == ValueCounter(scrobbles, "ignored")
             first == IF Get(scrobbles, "scrobble") = Missing THEN Missing
                      ELSE first_scrobble_value(Get(scrobbles, "scrobble"))
             field == IF first = Missing THEN Missing ELSE Get(first, "ignoredMessage")
             pair == IF field = Missing THEN <<S_unknown, S_rejected>>
                     ELSE ignored_message_from_value(field)
         IN  IF accepted > 0 /\ ignored = 0 THEN Success
             ELSE Failure("ScrobbleRejected", pair[1], pair[2])

\* check_scrobble_result: the typed matcher first, the generic value as fallback.
check_scrobble_result(p) ==
    IF p # NotJson /\ DeScrobbleResponse(p).ok
    THEN check_scrobble_from_struct(DeScrobbleResponse(p).v)
    ELSE IF p # NotJson THEN check_scrobble_from_value(p)
    ELSE Success

\* Which matcher check_scrobble_result hands the response to.
MatcherOf(p) ==
    IF p # NotJson /\ DeScrobbleResponse(p).ok THEN "struct"
    ELSE IF p # NotJson THEN "value"
    ELSE "none"

\* scrobble_track from the response text on: check_api_error(&text)?;
\* check_scrobble_result(&text)?; Ok(())
scrobble_response_result(p) ==
    IF ~check_api_error(p).ok THEN check_api_error(p) ELSE check_scrobble_result(p)

-----------------------------------------------------------------------------
(* The responses the service may give to track.scrobble *)

S_dup == <<"d", "u", "p">>
S_bad_key == <<"b", "a", "d", " ", "k", "e", "y">>

\* A counter of @attr: absent, a number, a decimal string, or unreadable.
CounterValues ==
    {Missing, JNum(0), JNum(1), JNum(-1), JStr(<<"0">>), JStr(<<"1">>), JStr(<<"x">>)}

AttrValues ==
    {Missing} \cup
    {MkObj(("accepted" :> a) @@ ("ignored" :> i)) : a, i \in CounterValues}

\* ignoredMessage: absent, null, a bare string, a bare number, or an object
\* whose code is absent, a string or a number.
IgnoredMessageValues ==
    {Missing, JNull, JStr(S_dup), JNum(91)} \cup
    {MkObj(("code" :> c) @@ ("#text" :> x)) :
        c \in {Missing, JStr(S_91), JStr(<<"1">>), JNum(1)},
        x \in {Missing, JStr(S_dup)}}

EntryValues == {MkObj("ignoredMessage" :> m) : m \in IgnoredMessageValues}

\* The entries of an array after its first.
LaterEntryValues ==
    {MkObj("ignoredMessage" :> m) :
        m \in {Missing, MkObj(("code" :> JStr(<<"1">>)) @@ ("#text" :> JStr(S_dup)))}}

MaxEntries == 2

EntryArrays ==
    {JArr(<<>>)} \cup
    UNION {
        {JArr(<<first>> \o rest) :
            first \in EntryValues, rest \in [1 .. n - 1 -> LaterEntryValues]}
        : n \in 1 .. MaxEntries}

ScrobbleValues == {Missing} \cup EntryValues \cup EntryArrays

ScrobblesValues ==
    {Missing, JNull} \cup
    {MkObj(("@attr" :> a) @@ ("scrobble" :> s)) : a \in AttrValues, s \in ScrobbleValues}

Payloads ==
    {NotJson} \cup
    {MkObj(("error" :> e) @@ ("message" :> m) @@ ("scrobbles" :> s)) :
        e \in {Missing, JNum(6), JNull},
        m \in {Missing, JStr(S_bad_key)},
        s \in ScrobblesValues}

Pending == [ok |-> FALSE, kind |-> "Pending", code |-> <<>>, message |-> <<>>]

RespIdle == payload = NotJson /\ stage = "idle" /\ outcome = Pending

\* scrobble_track, line 107: check_api_error(&text)?
CheckApiError ==
    /\ stage = "received"
    /\ IF check_api_error(payload).ok
       THEN stage' = "api_checked" /\ outcome' = outcome
       ELSE stage' = "done" /\ outcome' = check_api_error(payload)
    /\ UNCHANGED <<payload, eligVars, signVars, runVars, cfgVars, fileVars, cmdVars>>

\* scrobble_track, lines 108-109: check_scrobble_result(&text)?; Ok(())
CheckScrobbleResult ==
    /\ stage = "api_checked"
    /\ outcome' = check_scrobble_result(payload)
    /\ stage' = "done"
    /\ UNCHANGED <<payload, eligVars, signVars, runVars, cfgVars, fileVars, cmdVars>>

-----------------------------------------------------------------------------
(* main.rs and service.rs: a scrobble run.  A reply is what one blocking    *)
(* HTTP exchange gives back: a transport failure, or a response body.       *)

TransportFailure == [io |-> "failed", body |-> NotJson]
Body(p) == [io |-> "ok", body |-> p]

\* fetch_mobile_session from the reply on: Ok(session key) or Err.
fetch_mobile_session(reply) ==
    IF reply.io = "failed" THEN Err
    ELSE IF ~check_api_error(reply.body).ok THEN Err
    ELSE LET key == AsStr(Get(Get(reply.body, "session"), "key"))
         IN  IF key.some THEN Ok(key.v) ELSE Err

\* scrobble_track from the reply on.
scrobble_track(reply) ==
    IF reply.io = "failed" THEN Failure("Transport", <<>>, <<>>)
    ELSE scrobble_response_result(reply.body)

\* Service::parse succeeds
ServiceParses(service) == service \in {"lastfm", "librefm"}

\* scrobble_for_accounts, lines 266-278: the keys of an account are built in
\* for librefm and looked up in the configuration otherwise.
HasKeys(account) == account.service = "librefm" \/ account.service \in services

AuthRequest(i) ==
    [method |-> "auth.getMobileSession", acct |-> i, track |-> 0, sk |-> <<>>]

\* i64::to_string
I64ToString(n) == IF n < 0 THEN <<"-">> \o U32ToString(0 - n) ELSE U32ToString(n)

Param(name, value) == [name |-> name, value |-> value]

\* main.rs, lines 266-278: the api_key of the client of an account is built
\* in for librefm and the configured key of its service otherwise.
ApiKeyOf(account) ==
    IF account.service = "librefm" THEN "cobblestone"
    ELSE "the api_key of " \o account.service

\* scrobble_track, lines 74-87: the parameters that get signed.
scrobble_params(track, api_key, sk) ==
    <<Param("method", "track.scrobble"), Param("artist", track.artist),
      Param("track", track.title), Param("timestamp", I64ToString(track.timestamp)),
      Param("api_key", api_key), Param("sk", sk)>>
        \o (IF track.album.some THEN <<Param("album", track.album.v)>> ELSE <<>>)
        \o (IF track.duration > 0
            THEN <<Param("duration", I64ToString(track.duration))>>
            ELSE <<>>)

ScrobbleRequest(i, t, sk) ==
    [method |-> "track.scrobble", acct |-> i, track |-> t, sk |-> sk,
     params |-> scrobble_params(tracks[t], ApiKeyOf(accounts[i]), sk)]

\* The session key the service issues to the i-th account.
KeyFor(i) == <<"k", DigitChars[i + 1]>>

AuthReplies(i) ==
    {TransportFailure,
     Body(MkObj("session" :> MkObj("key" :> JStr(KeyFor(i))))),
     Body(MkObj(("error" :> JNum(4)) @@ ("message" :> JStr(S_bad_key)))),
     Body(MkObj(<<>>))}

ScrobbleReplies ==
    {TransportFailure,
     Body(MkObj("scrobbles" :> MkObj("@attr" :>
        MkObj(("accepted" :> JNum(1)) @@ ("ignored" :> JNum(0)))))),
     Body(MkObj("scrobbles" :> MkObj("scrobble" :> MkObj("ignoredMessage" :>
        MkObj(("code" :> JStr(<<"1">>)) @@ ("#text" :> JStr(S_dup))))))),
     Body(MkObj(("error" :> JNum(6)) @@ ("message" :> JStr(S_bad_key))))}

MaxAccounts == 2
MaxTracks == 2

ServiceNames == {"lastfm", "librefm", "other"}

RunIdle ==
    /\ services = {}
    /\ accounts = <<>>
    /\ tracks = <<>>
    /\ pc = "idle"
    /\ acct = 0
    /\ trk = 0
    /\ session_key = <<>>
    /\ inflight = {}
    /\ sent = <<>>
    /\ errors = <<>>
    /\ results = <<>>
    /\ failures = 0
    /\ acctState = <<>>
    /\ obtained = <<>>
    /\ submitted = <<>>
    /\ counted = <<>>

\* lines 272-276: no keys for the service: one failure, continue
MissingKeys ==
    /\ pc = "next_account"
    /\ acct <= Len(accounts)
    /\ ~HasKeys(accounts[acct])
    /\ failures' = failures + 1
    /\ acctState' = [acctState EXCEPT ![acct] = "NoKeys"]
    /\ counted' = [counted EXCEPT ![acct] = 1]
    /\ acct' = acct + 1
    /\ UNCHANGED <<services, accounts, tracks, pc, trk, session_key, inflight, sent,
                   errors, results, obtained, submitted, otherVars>>

\* line 279: Service::parse(&account.service)? returns the error to the caller
UnsupportedService ==
    /\ pc = "next_account"
    /\ acct <= Len(accounts)
    /\ HasKeys(accounts[acct])
    /\ ~ServiceParses(accounts[acct].service)
    /\ pc' = "aborted"
    /\ UNCHANGED <<services, accounts, tracks, acct, trk, session_key, inflight, sent,
                   errors, results, failures, acctState, obtained, submitted, counted,
                   otherVars>>

\* line 280, ScrobbleClient::new: the auth.getMobileSession request goes out
SendAuth ==
    /\ pc = "next_account"
    /\ acct <= Len(accounts)
    /\ HasKeys(accounts[acct])
    /\ ServiceParses(accounts[acct].service)
    /\ sent' = Append(sent, AuthRequest(acct))
    /\ inflight' = inflight \cup {AuthRequest(acct)}
    /\ pc' = "auth_wait"
    /\ UNCHANGED <<services, accounts, tracks, acct, trk, session_key, errors, results,
                   failures, acctState, obtained, submitted, counted, otherVars>>

\* A failed authentication that is handed on with `?` instead of being counted.
AuthReplyAborting ==
    /\ pc = "auth_wait"
    /\ \E reply \in AuthReplies(acct) :
          LET session == fetch_mobile_session(reply)
          IN  /\ inflight' = inflight \ {AuthRequest(acct)}
              /\ IF session.ok
                 THEN /\ session_key' = session.v
                      /\ acctState' = [acctState EXCEPT ![acct] = "Authenticated"]
                      /\ obtained' = [obtained EXCEPT ![acct] = session.v]
                      /\ pc' = "scrobbling"
                      /\ trk' = 1
                      /\ errors' = <<>>
                      /\ results' = <<>>
                      /\ UNCHANGED <<acct, failures, counted>>
                 ELSE /\ acctState' = [acctState EXCEPT ![acct] = "Failed"]
                      /\ pc' = "aborted"
                      /\ UNCHANGED <<session_key, obtained, trk, errors, results,
                                     acct, failures, counted>>
    /\ UNCHANGED <<services, accounts, tracks, sent, submitted, otherVars>>

\* A client that is built with an empty session key when authentication fails.
AuthReplyKeepingClient ==
    /\ pc = "auth_wait"
    /\ \E reply \in AuthReplies(acct) :
          LET session == fetch_mobile_session(reply)
          IN  /\ inflight' = inflight \ {AuthRequest(acct)}
              /\ session_key' = IF session.ok THEN session.v ELSE <<>>
              /\ acctState' = [acctState EXCEPT
                                  ![acct] = IF session.ok THEN "Authenticated" ELSE "Failed"]
              /\ obtained' = [obtained EXCEPT
                                  ![acct] = IF session.ok THEN session.v ELSE <<>>]
              /\ pc' = "scrobbling"
              /\ trk' = 1
              /\ errors' = <<>>
              /\ results' = <<>>
              /\ UNCHANGED <<acct, failures, counted>>
    /\ UNCHANGED <<services, accounts, tracks, sent, submitted, otherVars>>

\* lines 280-309 and ScrobbleClient::new: the reply to auth.getMobileSession.
\* Ok(client): scrobble_tracks starts; Err: one failure and the next account.
AuthReply ==
    /\ pc = "auth_wait"
    /\ \E reply \in AuthReplies(acct) :
          LET session == fetch_mobile_session(reply)
          IN  /\ inflight' = inflight \ {AuthRequest(acct)}
              /\ IF session.ok
                 THEN /\ session_key' = session.v
                      /\ acctState' = [acctState EXCEPT ![acct] = "Authenticated"]
                      /\ obtained' = [obtained EXCEPT ![acct] = session.v]
                      /\ pc' = "scrobbling"
                      /\ trk' = 1
                      /\ errors' = <<>>
                      /\ results' = <<>>
                      /\ UNCHANGED <<acct, failures, counted>>
                 ELSE /\ acctState' = [acctState EXCEPT ![acct] = "Failed"]
                      /\ failures' = failures + 1
                      /\ counted' = [counted EXCEPT ![acct] = 1]
                      /\ acct' = acct + 1
                      /\ pc' = "next_account"
                      /\ UNCHANGED <<session_key, obtained, trk, errors, results>>
    /\ UNCHANGED <<services, accounts, tracks, sent, submitted, otherVars>>

\* Requests that are all sent before any reply is awaited.
SendScrobblePipelined ==
    /\ pc = "scrobbling"
    /\ trk <= Len(tracks)
    /\ sent' = Append(sent, ScrobbleRequest(acct, trk, session_key))
    /\ inflight' = inflight \cup {ScrobbleRequest(acct, trk, session_key)}
    /\ trk' = trk + 1
    /\ UNCHANGED <<services, accounts, tracks, pc, acct, session_key, errors, results,
                   failures, acctState, obtained, submitted, counted, otherVars>>

\* scrobble_tracks, line 65, and scrobble_track, lines 74-96: the next track's
\* request goes out with the client's session key
SendScrobble ==
    /\ pc = "scrobbling"
    /\ trk <= Len(tracks)
    /\ sent' = Append(sent, ScrobbleRequest(acct, trk, session_key))
    /\ inflight' = inflight \cup {ScrobbleRequest(acct, trk, session_key)}
    /\ pc' = "scrobble_wait"
    /\ UNCHANGED <<services, accounts, tracks, acct, trk, session_key, errors, results,
                   failures, acctState, obtained, submitted, counted, otherVars>>

\* scrobble_tracks that returns at the first failed record.
ScrobbleReplyShortCircuit ==
    /\ pc = "scrobble_wait"
    /\ \E reply \in ScrobbleReplies :
          /\ inflight' = inflight \ {ScrobbleRequest(acct, trk, session_key)}
          /\ results' = Append(results, scrobble_track(reply).kind)
          /\ errors' = IF scrobble_track(reply).ok THEN errors ELSE Append(errors, trk)
          /\ trk' = IF scrobble_track(reply).ok THEN trk + 1 ELSE Len(tracks) + 1
    /\ submitted' = [submitted EXCEPT ![acct] = @ + 1]
    /\ pc' = "scrobbling"
    /\ UNCHANGED <<services, accounts, tracks, acct, session_key, sent, failures,
                   acctState, obtained, counted, otherVars>>

\* scrobble_track, lines 97-109, and scrobble_tracks, lines 66-68: the reply is
\* interpreted, a failure is pushed to the error list, the loop goes on
ScrobbleReply ==
    /\ pc = "scrobble_wait"
    /\ \E reply \in ScrobbleReplies :
          /\ inflight' = inflight \ {ScrobbleRequest(acct, trk, session_key)}
          /\ results' = Append(results, scrobble_track(reply).kind)
          /\ errors' = IF scrobble_track(reply).ok THEN errors ELSE Append(errors, trk)
    /\ trk' = trk + 1
    /\ submitted' = [submitted EXCEPT ![acct] = @ + 1]
    /\ pc' = "scrobbling"
    /\ UNCHANGED <<services, accounts, tracks, acct, session_key, sent, failures,
                   acctState, obtained, counted, otherVars>>

\* scrobble_tracks returns its error list; lines 282-303: the errors are
\* counted, the client is dropped, the loop takes the next account
FinishAccount ==
    /\ pc = "scrobbling"
    /\ trk > Len(tracks)
    /\ failures' = failures + Len(errors)
    /\ counted' = [counted EXCEPT ![acct] = Len(errors)]
    /\ session_key' = <<>>
    /\ acct' = acct + 1
    /\ pc' = "next_account"
    /\ UNCHANGED <<services, accounts, tracks, trk, inflight, sent, errors, results,
                   acctState, obtained, submitted, otherVars>>

\* line 311: Ok(failures)
Finish ==
    /\ pc = "next_account"
    /\ acct > Len(accounts)
    /\ pc' = "done"
    /\ UNCHANGED <<services, accounts, tracks, acct, trk, session_key, inflight, sent,
                   errors, results, failures, acctState, obtained, submitted, counted,
                   otherVars>>

-----------------------------------------------------------------------------
(* config.rs: the account list *)

Account(service, username, password_md5) ==
    [service |-> service, username |-> username, password_md5 |-> password_md5]

\* The condition of both loops: the account is the one named.
IsAccount(account, service, username) ==
    account.service = service /\ account.username = username

\* add_account without the search for an existing account.
add_account_always_push(cfg, service, username, password) ==
    [cfg EXCEPT !.accounts = Append(@, Account(service, username, Md5Hex(password)))]

\* add_account: the first account of that service and username gets the new
\* digest; without one, a new account is pushed.
add_account(cfg, service, username, password) ==
    LET password_md5 == Md5Hex(password)
        found == {i \in 1 .. Len(cfg.accounts) :
                     IsAccount(cfg.accounts[i], service, username)}
    IN  IF found # {}
        THEN LET first == CHOOSE i \in found : \A j \in found : i <= j
             IN  [cfg EXCEPT !.accounts[first].password_md5 = password_md5]
        ELSE [cfg EXCEPT !.accounts = Append(@, Account(service, username, password_md5))]

\* remove_account: retain drops every account of that service and username;
\* the result tells whether the list got shorter.
remove_account(cfg, service, username) ==
    LET keep(account) == ~IsAccount(account, service, username)
        kept == SelectSeq(cfg.accounts, keep)
    IN  [config |-> [cfg EXCEPT !.accounts = kept],
         returned |-> Len(kept) # Len(cfg.accounts)]

ConfigServices == {"lastfm", "librefm"}
Usernames == {"alice", "bob"}
\* "p", "q"
Passwords == {<<112>>, <<113>>}

\* The longest account list the model lets add_account produce.
MaxConfigAccounts == 4

\* The account lists a configuration file holds at the start: at most two
\* accounts, of distinct service and username.
LoadedAccounts ==
    {<<>>}
        \cup {<<Account(sv, u, Md5Hex(pw))>> :
                 sv \in ConfigServices, u \in Usernames, pw \in Passwords}
        \cup {pair \in {<<Account(sv1, u1, Md5Hex(<<112>>)), Account(sv2, u2, Md5Hex(pw))>> :
                            sv1 \in ConfigServices, u1 \in Usernames,
                            sv2 \in ConfigServices, u2 \in Usernames, pw \in Passwords} :
                 ~IsAccount(pair[2], pair[1].service, pair[1].username)}

CfgIdle == config = [accounts |-> <<>>] /\ op = [name |-> "idle"]

\* handle_account, AccountCommand::Add
AddAccount ==
    /\ op.name # "idle"
    /\ \E service \in ConfigServices, username \in Usernames, password \in Passwords :
          LET after == add_account(config, service, username, password)
          IN  /\ Len(after.accounts) <= MaxConfigAccounts
              /\ config' = after
              /\ op' = [name |-> "add", service |-> service, username |-> username,
                        password |-> password, before |-> config.accounts,
                        returned |-> TRUE]
    /\ UNCHANGED <<eligVars, signVars, respVars, runVars, fileVars, cmdVars>>

\* handle_account, AccountCommand::Remove
RemoveAccount ==
    /\ op.name # "idle"
    /\ \E service \in ConfigServices, username \in Usernames :
          LET result == remove_account(config, service, username)
          IN  /\ config' = result.config
              /\ op' = [name |-> "remove", service |-> service, username |-> username,
                        password |-> <<>>, before |-> config.accounts,
                        returned |-> result.returned]
    /\ UNCHANGED <<eligVars, signVars, respVars, runVars, fileVars, cmdVars>>

-----------------------------------------------------------------------------
(* rockbox.rs: the playback log.  A text is a sequence of characters.       *)

PLAYBACK_LOG_PARTS == 4

\* str::lines: the text is cut after every "\n"; a line loses its "\n" and a
\* "\r" right before it; a text that ends in "\n" has no empty last line.
RECURSIVE LinesOf(_, _)
LinesOf(text, line) ==
    IF text = <<>> THEN (IF line = <<>> THEN <<>> ELSE <<line>>)
    ELSE IF Head(text) = "\n"
         THEN LET cut == IF line # <<>> /\ line[Len(line)] = "\r"
                         THEN SubSeq(line, 1, Len(line) - 1)
                         ELSE line
              IN  <<cut>> \o LinesOf(Tail(text), <<>>)
         ELSE LinesOf(Tail(text), Append(line, Head(text)))

Lines(text) == LinesOf(text, <<>>)

\* char::is_whitespace, on the characters of the model
IsWhitespace(c) == c \in {" ", "\t", "\r", "\n"}

RECURSIVE TrimStart(_)
TrimStart(t) ==
    IF t # <<>> /\ IsWhitespace(Head(t)) THEN TrimStart(Tail(t)) ELSE t

RECURSIVE TrimEnd(_)
TrimEnd(t) ==
    IF t # <<>> /\ IsWhitespace(t[Len(t)])
    THEN TrimEnd(SubSeq(t, 1, Len(t) - 1))
    ELSE t

\* str::trim
Trim(t) == TrimEnd(TrimStart(t))

\* str::splitn(n, ':'): at most n parts, the last one holding the rest.
RECURSIVE SplitN(_, _, _)
SplitN(n, t, part) ==
    IF n = 1 THEN <<part \o t>>
    ELSE IF t = <<>> THEN <<part>>
    ELSE IF Head(t) = ":" THEN <<part>> \o SplitN(n - 1, Tail(t), <<>>)
    ELSE SplitN(n, Tail(t), Append(part, Head(t)))

\* i64::MAX and the magnitude of i64::MIN, as digits
I64MaxDigits ==
    <<"9", "2", "2", "3", "3", "7", "2", "0", "3", "6",
      "8", "5", "4", "7", "7", "5", "8", "0", "7">>
I64MinDigits ==
    <<"9", "2", "2", "3", "3", "7", "2", "0", "3", "6",
      "8", "5", "4", "7", "7", "5", "8", "0", "8">>

RECURSIVE StripZeros(_)
StripZeros(d) ==
    IF Len(d) > 1 /\ Head(d) = "0" THEN StripZeros(Tail(d)) ELSE d

\* a < b for two digit strings of the same length
RECURSIVE DigitsLess(_, _)
DigitsLess(a, b) ==
    IF a = <<>> THEN FALSE
    ELSE IF Head(a) # Head(b) THEN DigitValue(Head(a)) < DigitValue(Head(b))
    ELSE DigitsLess(Tail(a), Tail(b))

\* The accumulation of str::parse::<i64> overflows.
Overflows(negative, digits) ==
    LET d == StripZeros(digits)
        limit == IF negative THEN I64MinDigits ELSE I64MaxDigits
    IN  Len(d) > Len(limit) \/ (Len(d) = Len(limit) /\ DigitsLess(limit, d))

\* str::parse::<i64>: an optional sign, one or more decimal digits, no
\* overflow.  The values of the model are below 2^31.
ParseI64(t) ==
    IF t = <<>> THEN Err
    ELSE LET signed == Head(t) \in {"+", "-"}
             negative == Head(t) = "-"
             digits == IF signed THEN Tail(t) ELSE t
         IN  IF digits = <<>> \/ \E i \in 1 .. Len(digits) : ~IsDigit(digits[i])
             THEN Err
             ELSE IF Overflows(negative, digits) THEN Err
             ELSE Ok(IF negative THEN 0 - DigitsValue(digits, 0)
                     ELSE DigitsValue(digits, 0))

\* local_timestamp_to_utc: the seconds are read as a local wall-clock time and
\* converted to UTC; a wall-clock time the zone skips is returned as it is.
local_timestamp_to_utc(timestamp, tz) ==
    IF timestamp \in tz.gap THEN timestamp ELSE timestamp - tz.offset

PlaybackEntry(timestamp, elapsed_ms, total_ms, path) ==
    [timestamp |-> timestamp, elapsed_ms |-> elapsed_ms, total_ms |-> total_ms,
     path |-> path]

\* The body of parse_playback_log's loop with the line split at every colon.
parse_line_split_every_colon(line, tz) ==
    LET cleaned == Trim(line)
        parts == SplitN(Len(cleaned) + 1, cleaned, <<>>)
    IN  IF cleaned = <<>> \/ Head(cleaned) = "#" THEN None
        ELSE IF Len(parts) # PLAYBACK_LOG_PARTS THEN None
        ELSE IF ~ParseI64(parts[1]).ok THEN None
        ELSE IF ~ParseI64(parts[2]).ok THEN None
        ELSE IF ~ParseI64(parts[3]).ok THEN None
        ELSE Some(PlaybackEntry(local_timestamp_to_utc(ParseI64(parts[1]).v, tz),
                                ParseI64(parts[2]).v, ParseI64(parts[3]).v, parts[4]))

\* The body of parse_playback_log's loop: None where the line is skipped,
\* the entry it pushes otherwise.
parse_line(line, tz) ==
    LET cleaned == Trim(line)
        parts == SplitN(PLAYBACK_LOG_PARTS, cleaned, <<>>)
    IN  IF cleaned = <<>> \/ Head(cleaned) = "#" THEN None
        ELSE IF Len(parts) # PLAYBACK_LOG_PARTS THEN None
        ELSE IF ~ParseI64(parts[1]).ok THEN None
        ELSE IF ~ParseI64(parts[2]).ok THEN None
        ELSE IF ~ParseI64(parts[3]).ok THEN None
        ELSE Some(PlaybackEntry(local_timestamp_to_utc(ParseI64(parts[1]).v, tz),
                                ParseI64(parts[2]).v, ParseI64(parts[3]).v, parts[4]))

RECURSIVE ParseLines(_, _)
ParseLines(lines, tz) ==
    IF lines = <<>> THEN <<>>
    ELSE LET entry == parse_line(Head(lines), tz)
         IN  (IF entry.some THEN <<entry.v>> ELSE <<>>) \o ParseLines(Tail(lines), tz)

\* parse_playback_log; file is what read_to_string returns.
parse_playback_log(file, tz) ==
    IF ~file.ok THEN Err ELSE Ok(ParseLines(Lines(file.v), tz))

\* The fields of the lines of the model.
TimestampFields == {<<"7">>, <<"-", "7">>, <<"x">>}
TotalFields ==
    {<<"4", "0", "0", "0", "0">>,
     <<"9", "9", "9", "9", "9", "9", "9", "9", "9", "9",
       "9", "9", "9", "9", "9", "9", "9", "9", "9", "9">>}
PathFields == {<<"a">>, <<"a", ":", "b">>, <<>>}

LineOf(timestamp, elapsed, total, path) ==
    timestamp \o <<":">> \o elapsed \o <<":">> \o total \o <<":">> \o path

\* A well-formed line, and the same line blank, commented out, one field
\* short, padded, and with a space inside a number.
GoodLine == LineOf(<<"7">>, <<"2", "0", "0", "0", "0">>, <<"4", "0", "0", "0", "0">>, <<"a">>)

LogLines ==
    {LineOf(t, <<"+", "5">>, tt, path) :
        t \in TimestampFields, tt \in TotalFields, path \in PathFields}
        \cup {GoodLine, <<>>, <<" ", "\t">>, <<"#">> \o GoodLine,
              LineOf(<<"7">>, <<>>, <<"4", "0", "0", "0", "0">>, <<"a">>),
              SubSeq(GoodLine, 1, Len(GoodLine) - 2),
              <<" ">> \o GoodLine \o <<" ", "\t">>,
              <<"7", " ">> \o Tail(GoodLine)}

MaxLines == 2

\* The line endings of a log: "\n" after every line, or "\r\n" between lines.
RECURSIVE JoinLines(_, _)
JoinLines(lines, crlf) ==
    IF lines = <<>> THEN <<>>
    ELSE IF crlf
         THEN Head(lines)
                 \o (IF Len(lines) > 1 THEN <<"\r", "\n">> ELSE <<>>)
                 \o JoinLines(Tail(lines), crlf)
         ELSE Head(lines) \o <<"\n">> \o JoinLines(Tail(lines), crlf)

LogTexts ==
    {JoinLines(lines, crlf) :
        lines \in UNION {[1 .. n -> LogLines] : n \in 0 .. MaxLines},
        crlf \in BOOLEAN}

\* UTC, and a zone one hour east of it whose clocks skip the second 7.
Zones == {[offset |-> 0, gap |-> {}], [offset |-> 3600, gap |-> {7}]}

LogIdle ==
    /\ raw = Err
    /\ zone = [offset |-> 0, gap |-> {}]
    /\ line_no = 0
    /\ log_entries = <<>>
    /\ logPhase = "idle"

\* lines 247-248: read_to_string fails
ReadFails ==
    /\ logPhase = "reading"
    /\ ~raw.ok
    /\ logPhase' = "failed"
    /\ UNCHANGED <<raw, zone, line_no, log_entries, tcVars, buildVars,
                   eligVars, signVars, respVars, runVars, cfgVars, cmdVars>>

\* lines 250-275: one turn of the for loop
ReadLine ==
    /\ logPhase = "reading"
    /\ raw.ok
    /\ line_no < Len(Lines(raw.v))
    /\ LET entry == parse_line(Lines(raw.v)[line_no + 1], zone)
       IN  log_entries' = IF entry.some THEN Append(log_entries, entry.v)
                          ELSE log_entries
    /\ line_no' = line_no + 1
    /\ UNCHANGED <<raw, zone, logPhase, tcVars, buildVars,
                   eligVars, signVars, respVars, runVars, cfgVars, cmdVars>>

\* line 276: Ok(entries)
ReturnEntries ==
    /\ logPhase = "reading"
    /\ raw.ok
    /\ line_no = Len(Lines(raw.v))
    /\ logPhase' = "returned"
    /\ UNCHANGED <<raw, zone, line_no, log_entries, tcVars, buildVars,
                   eligVars, signVars, respVars, runVars, cfgVars, cmdVars>>

-----------------------------------------------------------------------------
(* rockbox.rs: the tag cache.  A file is a sequence of bytes; a string is   *)
(* the sequence of its bytes.                                               *)

\* 0x5443_4810
TAGCACHE_MAGIC == 1413695504

TAG_ARTIST == 0
TAG_ALBUM == 1
TAG_TITLE == 3
TAG_FILENAME == 4
TAG_LENGTH == 14
TAG_COUNT == 23

TAGCACHE_HEADER_SIZE == 12
TAGFILE_ENTRY_HEADER_SIZE == 8

\* TagCache.entry_size and TagCache.master_header_size, as new sets them
ENTRY_SIZE == (TAG_COUNT + 1) * 4
MASTER_HEADER_SIZE == 24

\* The bytes of a word, most significant first.
MsbFirst(endian, b) == IF endian = "Little" THEN <<b[4], b[3], b[2], b[1]>> ELSE b

\* Endian::read_i32
read_i32(endian, b) ==
    LET o == MsbFirst(endian, b)
    IN  (IF o[1] >= 128 THEN o[1] - 256 ELSE o[1]) * 16777216
            + o[2] * 65536 + o[3] * 256 + o[4]

\* Endian::read_u32.  The value is wide * 2^31 + low.
read_u32(endian, b) ==
    LET o == MsbFirst(endian, b)
    IN  [wide |-> o[1] >= 128,
         low |-> (o[1] % 128) * 16777216 + o[2] * 65536 + o[3] * 256 + o[4]]

U32IsZero(x) == ~x.wide /\ x.low = 0

\* i32::try_from(u32)
I32TryFrom(x) == IF x.wide THEN Err ELSE Ok(x.low)

\* The bytes of the file from position pos on, at most n of them: what
\* File::read returns after a seek to pos.
ReadAt(bytes, pos, n) ==
    IF pos >= Len(bytes) THEN <<>>
    ELSE SubSeq(bytes, pos + 1, Min(pos + n, Len(bytes)))

\* read_exact of a length given as a u32: Err where the file ends before.
ReadExactAt(bytes, pos, length) ==
    IF length.wide THEN Err
    ELSE IF length.low = 0 THEN Ok(<<>>)
    ELSE IF pos >= Len(bytes) \/ length.low > Len(bytes) - pos THEN Err
    ELSE Ok(SubSeq(bytes, pos + 1, pos + length.low))

\* data.split(|byte| *byte == 0).next(): the bytes before the first null.
RECURSIVE BeforeNull(_)
BeforeNull(data) ==
    IF data = <<>> \/ Head(data) = 0 THEN <<>>
    ELSE <<Head(data)>> \o BeforeNull(Tail(data))

\* The name of a file of the .rockbox directory.
MasterFile == "database_idx.tcd"
TagFile(tag) ==
    CASE tag = TAG_ARTIST -> "database_0.tcd"
      [] tag = TAG_ALBUM -> "database_1.tcd"
      [] tag = TAG_TITLE -> "database_3.tcd"
      [] tag = TAG_FILENAME -> "database_4.tcd"

\* detect_endian: the first four bytes of the master file, read both ways.
detect_endian(d) ==
    IF ~d[MasterFile].exists \/ Len(d[MasterFile].bytes) < 4 THEN Err
    ELSE LET magic_bytes == SubSeq(d[MasterFile].bytes, 1, 4)
         IN  IF read_u32("Little", magic_bytes) = [wide |-> FALSE, low |-> TAGCACHE_MAGIC]
             THEN Ok("Little")
             ELSE IF read_u32("Big", magic_bytes) = [wide |-> FALSE, low |-> TAGCACHE_MAGIC]
             THEN Ok("Big")
             ELSE Err

\* TagCache::new
TagCacheNew(d) ==
    IF ~d[MasterFile].exists THEN Err
    ELSE IF ~detect_endian(d).ok THEN Err
    ELSE Ok([endian |-> detect_endian(d).v,
             entry_size |-> ENTRY_SIZE,
             master_header_size |-> MASTER_HEADER_SIZE,
             path_index |-> None,
             tag_files |-> {}])

\* close dropping the reverse index together with the file handles.
TagCacheCloseDroppingIndex(tc) == [tc EXCEPT !.tag_files = {}, !.path_index = None]

\* TagCache::close
TagCacheClose(tc) == [tc EXCEPT !.tag_files = {}]

\* with_tag_file up to the call of f: the handle of the tag is opened unless
\* the cache holds one.
with_tag_file(tc, d, tag) ==
    IF tag \in tc.tag_files THEN Ok(tc)
    ELSE IF ~d[TagFile(tag)].exists THEN Err
    ELSE Ok([tc EXCEPT !.tag_files = @ \cup {tag}])

\* read_header reading a header of the size of the master header.
read_header_of_master_size(endian, bytes, pos) ==
    LET header == ReadAt(bytes, pos, MASTER_HEADER_SIZE)
    IN  IF Len(header) # MASTER_HEADER_SIZE THEN Err
        ELSE Ok([magic |-> read_u32(endian, SubSeq(header, 1, 4)),
                 data_size |-> read_u32(endian, SubSeq(header, 5, 8)),
                 entry_count |-> read_u32(endian, SubSeq(header, 9, 12)),
                 pos |-> pos + MASTER_HEADER_SIZE])

\* read_header: magic, data_size, entry_count out of TAGCACHE_HEADER_SIZE bytes
read_header(endian, bytes, pos) ==
    LET header == ReadAt(bytes, pos, TAGCACHE_HEADER_SIZE)
    IN  IF Len(header) # TAGCACHE_HEADER_SIZE THEN Err
        ELSE Ok([magic |-> read_u32(endian, SubSeq(header, 1, 4)),
                 data_size |-> read_u32(endian, SubSeq(header, 5, 8)),
                 entry_count |-> read_u32(endian, SubSeq(header, 9, 12)),
                 pos |-> pos + TAGCACHE_HEADER_SIZE])

\* read_tag_string: the result and the cache after the call.
read_tag_string(tc, d, tag, seek) ==
    IF seek <= 0 THEN [r |-> Ok(None), tc |-> tc]
    ELSE LET opened == with_tag_file(tc, d, tag)
         IN  IF ~opened.ok THEN [r |-> Err, tc |-> tc]
             ELSE LET bytes == d[TagFile(tag)].bytes
                      entry == ReadAt(bytes, seek, TAGFILE_ENTRY_HEADER_SIZE)
                      tag_length == read_u32(tc.endian, SubSeq(entry, 1, 4))
                      data == ReadExactAt(bytes, seek + TAGFILE_ENTRY_HEADER_SIZE,
                                          tag_length)
                  IN  IF Len(entry) # TAGFILE_ENTRY_HEADER_SIZE
                      THEN [r |-> Ok(None), tc |-> opened.v]
                      ELSE IF U32IsZero(tag_length)
                      THEN [r |-> Ok(None), tc |-> opened.v]
                      ELSE IF ~data.ok THEN [r |-> Err, tc |-> opened.v]
                      ELSE [r |-> Ok(Some(BeforeNull(data.v))), tc |-> opened.v]

\* HashMap::insert
MapInsert(index, key, value) ==
    [k \in DOMAIN index \cup {key} |-> IF k = key THEN value ELSE index[k]]

EmptyMap == [k \in {} |-> 0]

\* The turns the for loop of load_path_index can take over a file: every turn
\* that does not leave the loop consumes a sub-header.
LoopTurns(entry_count, bytes) ==
    IF entry_count.wide \/ entry_count.low > Len(bytes) THEN Len(bytes) + 1
    ELSE entry_count.low

\* lines 170-187, the for loop of load_path_index from file position pos on:
\* whether it ended without error, the index, and the positions at which it
\* read a sub-header.
RECURSIVE ScanEntries(_, _, _, _, _, _)
ScanEntries(endian, bytes, pos, turns, index, offsets) ==
    IF turns = 0 THEN [ok |-> TRUE, index |-> index, offsets |-> offsets]
    ELSE
      LET entry == ReadAt(bytes, pos, TAGFILE_ENTRY_HEADER_SIZE)
          tag_length == read_u32(endian, SubSeq(entry, 1, 4))
          idx_id == I32TryFrom(read_u32(endian, SubSeq(entry, 5, 8)))
          data == ReadExactAt(bytes, pos + TAGFILE_ENTRY_HEADER_SIZE, tag_length)
          read == Append(offsets, pos)
      IN  IF Len(entry) # TAGFILE_ENTRY_HEADER_SIZE
          THEN [ok |-> TRUE, index |-> index, offsets |-> offsets]
          ELSE IF U32IsZero(tag_length)
          THEN ScanEntries(endian, bytes, pos + TAGFILE_ENTRY_HEADER_SIZE,
                           turns - 1, index, read)
          ELSE IF ~idx_id.ok THEN [ok |-> FALSE, index |-> index, offsets |-> read]
          ELSE IF ~data.ok THEN [ok |-> FALSE, index |-> index, offsets |-> read]
          ELSE ScanEntries(endian, bytes,
                           pos + TAGFILE_ENTRY_HEADER_SIZE + tag_length.low,
                           turns - 1,
                           MapInsert(index, BeforeNull(data.v), idx_id.v), read)

\* lines 165-188: the header is checked and the loop runs behind it.
ScanBehindHeader(endian, bytes, header) ==
    IF ~header.ok
    THEN [ok |-> FALSE, index |-> EmptyMap, offsets |-> <<>>]
    ELSE IF header.v.magic # [wide |-> FALSE, low |-> TAGCACHE_MAGIC]
    THEN [ok |-> FALSE, index |-> EmptyMap, offsets |-> <<>>]
    ELSE ScanEntries(endian, bytes, header.v.pos,
                     LoopTurns(header.v.entry_count, bytes), EmptyMap, <<>>)

\* lines 163-189: the scan of the reverse-index file: the loop's result and
\* the bytes it ran over.
ScanPathIndex(endian, bytes) ==
    ScanBehindHeader(endian, bytes, read_header(endian, bytes, 0))
        @@ [endian |-> endian, bytes |-> bytes]

\* lines 163-190, given the handle and the scan: the index is stored in the
\* cache when the scan succeeded.
StorePathIndex(tc, opened, scan) ==
    IF ~opened.ok THEN [r |-> Err, tc |-> tc, scan |-> None]
    ELSE IF ~scan.ok THEN [r |-> Err, tc |-> opened.v, scan |-> Some(scan)]
    ELSE [r |-> Ok(scan.index),
          tc |-> [opened.v EXCEPT !.path_index = Some(scan.index)],
          scan |-> Some(scan)]

\* load_path_index: the result, the cache after the call and the scan the
\* call made, if it made one.
load_path_index(tc, d) ==
    IF tc.path_index.some
    THEN [r |-> Ok(tc.path_index.v), tc |-> tc, scan |-> None]
    ELSE StorePathIndex(tc, with_tag_file(tc, d, TAG_FILENAME),
                        ScanPathIndex(tc.endian, d[TagFile(TAG_FILENAME)].bytes))

\* read_index_entry: the row of the master file, as TAG_COUNT + 1 fields.
read_index_entry(tc, d, idx_id) ==
    IF idx_id < 0 THEN Err
    ELSE IF ~d[MasterFile].exists THEN Err
    ELSE LET bytes == d[MasterFile].bytes
         IN  IF idx_id > Len(bytes) THEN Err
             ELSE LET offset == tc.master_header_size + idx_id * tc.entry_size
                      row == ReadAt(bytes, offset, tc.entry_size)
                  IN  IF Len(row) # tc.entry_size THEN Err
                      ELSE Ok([f \in 0 .. TAG_COUNT |->
                                 read_i32(tc.endian, SubSeq(row, 4 * f + 1, 4 * f + 4))])

TrackInfo(artist, title, album, duration_seconds) ==
    [artist |-> artist, title |-> title, album |-> album,
     duration_seconds |-> duration_seconds]

Max(a, b) == IF a >= b THEN a ELSE b

\* Option::unwrap_or_default on an Option<String>
UnwrapOrDefault(o) == IF o.some THEN o.v ELSE <<>>

\* Lines 207-219 with the title left out of the test.
ResolveTrackInfoArtistOnly(artist, title, album, entry) ==
    IF UnwrapOrDefault(artist) = <<>> THEN None
    ELSE Some(TrackInfo(UnwrapOrDefault(artist), UnwrapOrDefault(title),
                        IF album.some /\ album.v # <<>> THEN album ELSE None,
                        TruncDiv(Max(entry[TAG_LENGTH], 0), 1000)))

\* Lines 207-219 without the max(0) on the stored duration.
ResolveTrackInfoSignedDuration(artist, title, album, entry) ==
    IF UnwrapOrDefault(artist) = <<>> \/ UnwrapOrDefault(title) = <<>> THEN None
    ELSE Some(TrackInfo(UnwrapOrDefault(artist), UnwrapOrDefault(title),
                        IF album.some /\ album.v # <<>> THEN album ELSE None,
                        TruncDiv(entry[TAG_LENGTH], 1000)))

\* get_track_info, lines 207-219: the TrackInfo of a row whose three strings
\* have been read.
ResolveTrackInfo(artist, title, album, entry) ==
    LET artist_ == UnwrapOrDefault(artist)
        title_ == UnwrapOrDefault(title)
        duration_ms == Max(entry[TAG_LENGTH], 0)
        duration_seconds == TruncDiv(duration_ms, 1000)
    IN  IF artist_ = <<>> \/ title_ = <<>> THEN None
        ELSE Some(TrackInfo(artist_, title_,
                            IF album.some /\ album.v # <<>> THEN album ELSE None,
                            duration_seconds))

\* get_track_info, lines 206-219, with the album read: the `?` of line 206
\* and the TrackInfo.
TrackInfoWithAlbum(loaded, entry, artist, title, album) ==
    IF ~album.r.ok THEN [r |-> Err, tc |-> album.tc, scan |-> loaded.scan]
    ELSE [r |-> Ok(ResolveTrackInfo(artist.r.v, title.r.v, album.r.v, entry)),
          tc |-> album.tc, scan |-> loaded.scan]

\* lines 205-206, with the title read: the `?` of line 205, then the album
TrackInfoWithTitle(loaded, d, entry, artist, title) ==
    IF ~title.r.ok THEN [r |-> Err, tc |-> title.tc, scan |-> loaded.scan]
    ELSE TrackInfoWithAlbum(loaded, entry, artist, title,
                            read_tag_string(title.tc, d, TAG_ALBUM, entry[TAG_ALBUM]))

\* lines 204-205, with the artist read: the `?` of line 204, then the title
TrackInfoWithArtist(loaded, d, entry, artist) ==
    IF ~artist.r.ok THEN [r |-> Err, tc |-> artist.tc, scan |-> loaded.scan]
    ELSE TrackInfoWithTitle(loaded, d, entry, artist,
                            read_tag_string(artist.tc, d, TAG_TITLE, entry[TAG_TITLE]))

\* lines 203-204, with the row read: the `?` of line 203, then the artist
TrackInfoOfRow(loaded, d, entry) ==
    IF ~entry.ok THEN [r |-> Err, tc |-> loaded.tc, scan |-> loaded.scan]
    ELSE TrackInfoWithArtist(loaded, d, entry.v,
                             read_tag_string(loaded.tc, d, TAG_ARTIST,
                                             entry.v[TAG_ARTIST]))

\* lines 200-203, find_idx_id with the index loaded: the `?` and the
\* let-else of line 200, then the row
TrackInfoOfPath(loaded, d, path) ==
    IF ~loaded.r.ok THEN [r |-> Err, tc |-> loaded.tc, scan |-> loaded.scan]
    ELSE IF path \notin DOMAIN loaded.r.v
    THEN [r |-> Ok(None), tc |-> loaded.tc, scan |-> loaded.scan]
    ELSE TrackInfoOfRow(loaded, d, read_index_entry(loaded.tc, d, loaded.r.v[path]))

\* get_track_info: the result, the cache after the call and the scan of the
\* reverse-index file the call made, if it made one.
get_track_info(tc, d, path) == TrackInfoOfPath(load_path_index(tc, d), d, path)

-----------------------------------------------------------------------------
(* The files of the model, as the player's database writer lays them out.   *)

\* The four bytes of a signed 32-bit value.
WordBytes(endian, v) ==
    LET msb == <<(v \div 16777216) % 256, (v \div 65536) % 256, (v \div 256) % 256, v % 256>>
    IN  IF endian = "Little" THEN <<msb[4], msb[3], msb[2], msb[1]>> ELSE msb

\* A sub-header and its string.
TagEntry(endian, tag_length, idx_id, data) ==
    WordBytes(endian, tag_length) \o WordBytes(endian, idx_id) \o data

\* The header of a tag file: magic, data size, entry count.
TagHeader(endian, entry_count) ==
    WordBytes(endian, TAGCACHE_MAGIC) \o WordBytes(endian, 0)
        \o WordBytes(endian, entry_count)

\* The header of the master file: a tag file header, then serial, commit id
\* and dirty flag.
MasterHeader(endian, entry_count) ==
    TagHeader(endian, entry_count) \o WordBytes(endian, 1)
        \o WordBytes(endian, 1) \o WordBytes(endian, 0)

\* "Ab", "Cd", "a", "b", "c", "zz"
S_Ab == <<65, 98>>
S_Cd == <<67, 100>>
P_a == <<97>>
P_b == <<98>>
P_c == <<99>>
P_zz == <<122, 122>>

\* The string file every tag kind of the model uses: "Ab" padded with nulls,
\* a string that starts with a null, an entry of length zero, "Cd", and an
\* entry whose string the end of the file cuts short.
StringsA(endian) == TagHeader(endian, 5)
StringsB(endian) == StringsA(endian) \o TagEntry(endian, 4, 0, S_Ab \o <<0, 0>>)
StringsC(endian) == StringsB(endian) \o TagEntry(endian, 2, 0, <<0, 120>>)
StringsD(endian) == StringsC(endian) \o TagEntry(endian, 0, 0, <<>>)
StringsE(endian) == StringsD(endian) \o TagEntry(endian, 3, 1, S_Cd \o <<0>>)
StringsFile(endian) == StringsE(endian) \o TagEntry(endian, 5, 1, <<69, 101>>)

\* The seek offsets of those entries, of the last four bytes of the file and
\* of its end.
SeekAb == Len(StringsA("Little"))
SeekNull == Len(StringsB("Little"))
SeekZero == Len(StringsC("Little"))
SeekCd == Len(StringsD("Little"))
SeekCut == Len(StringsE("Little"))
SeekShort == Len(StringsFile("Little")) - 4
SeekEnd == Len(StringsFile("Little"))

\* A row of the master file: the tag fields the reader uses, zero elsewhere.
RowBytes(endian, row) ==
    LET field(f) == IF f = TAG_ARTIST THEN row.artist
                    ELSE IF f = TAG_ALBUM THEN row.album
                    ELSE IF f = TAG_TITLE THEN row.title
                    ELSE IF f = TAG_LENGTH THEN row.length
                    ELSE 0
        RECURSIVE Fields(_)
        Fields(f) == IF f > TAG_COUNT THEN <<>>
                     ELSE WordBytes(endian, field(f)) \o Fields(f + 1)
    IN  Fields(0)

Row(artist, album, title, length) ==
    [artist |-> artist, album |-> album, title |-> title, length |-> length]

\* The stored durations: the ends of the 32-bit range, the values around zero
\* and around a whole second.
LengthValues == {-2147483647 - 1, -1000, -1, 0, 999, 1000, 185999, 2147483647}

BaseRow == Row(SeekAb, SeekAb, SeekCd, 185999)

\* Every way an artist and a title resolve, with an album that resolves, is
\* empty or fails; every stored duration.
Rows ==
    {Row(artist, album, title, 1000) :
        artist \in {-1, 0, SeekAb, SeekNull, SeekZero, SeekCut, SeekShort, SeekEnd},
        title \in {-1, 0, SeekCd, SeekNull, SeekZero, SeekCut, SeekShort, SeekEnd},
        album \in {SeekCd, SeekNull}}
        \cup {Row(SeekAb, album, SeekCd, 1000) : album \in {0, SeekCut}}
        \cup {Row(SeekAb, album, SeekCd, length) :
                 album \in {0, SeekAb}, length \in LengthValues}

File(bytes) == [exists |-> TRUE, bytes |-> bytes]
NoFile == [exists |-> FALSE, bytes |-> <<>>]

\* The master file: the base row as row 0, the row under test as row 1.
MasterBytes(endian, row) ==
    MasterHeader(endian, 2) \o RowBytes(endian, BaseRow) \o RowBytes(endian, row)

Endians == {"Little", "Big"}

PathEntry(endian, path, idx_id) ==
    TagEntry(endian, Len(path) + 1, idx_id, path \o <<0>>)

\* The reverse-index file as the player writes it: a tag file header, then
\* "a" for row 1, an entry of length zero and "b", padded, for row 0.
RevGood(endian) ==
    TagHeader(endian, 3) \o PathEntry(endian, P_a, 1) \o TagEntry(endian, 0, 0, <<>>)
        \o TagEntry(endian, 3, 0, P_b \o <<0, 0>>)

\* The same file after the player has added "c" for row 0.
RevAppended(endian) ==
    TagHeader(endian, 4) \o PathEntry(endian, P_a, 1) \o TagEntry(endian, 0, 0, <<>>)
        \o TagEntry(endian, 3, 0, P_b \o <<0, 0>>) \o PathEntry(endian, P_c, 0)

\* Other reverse-index files: with a header of the shape of the master
\* header, cut inside a string, with a foreign magic, with a row identifier
\* above i32::MAX, with an entry count beyond the entries (small and above
\* i32::MAX), with a path twice, with a cut header, with a row the master
\* file does not hold.
RevFiles(endian) ==
    {File(RevGood(endian)),
     File(RevAppended(endian)),
     File(MasterHeader(endian, 2) \o PathEntry(endian, P_a, 1) \o PathEntry(endian, P_b, 0)),
     File(TagHeader(endian, 2) \o PathEntry(endian, P_a, 1) \o TagEntry(endian, 4, 0, P_b)),
     File(WordBytes(endian, 7) \o WordBytes(endian, 0) \o WordBytes(endian, 1)
             \o PathEntry(endian, P_a, 1)),
     File(TagHeader(endian, 1) \o PathEntry(endian, P_a, -1)),
     File(TagHeader(endian, 7) \o PathEntry(endian, P_a, 1) \o PathEntry(endian, P_b, 0)
             \o <<0, 0, 0>>),
     File(TagHeader(endian, -1) \o PathEntry(endian, P_a, 1) \o PathEntry(endian, P_b, 0)),
     File(TagHeader(endian, 2) \o PathEntry(endian, P_a, 0) \o PathEntry(endian, P_a, 1)),
     File(SubSeq(TagHeader(endian, 1), 1, 8)),
     File(TagHeader(endian, 2) \o PathEntry(endian, P_a, 1) \o PathEntry(endian, P_c, 2)),
     NoFile}

Disk(master, artists, albums, titles, filenames) ==
    [name \in {MasterFile, TagFile(TAG_ARTIST), TagFile(TAG_ALBUM), TagFile(TAG_TITLE),
               TagFile(TAG_FILENAME)} |->
        IF name = MasterFile THEN master
        ELSE IF name = TagFile(TAG_ARTIST) THEN artists
        ELSE IF name = TagFile(TAG_ALBUM) THEN albums
        ELSE IF name = TagFile(TAG_TITLE) THEN titles
        ELSE filenames]

\* A database in good order around the row under test and a reverse-index
\* file.
DiskOf(endian, row, filenames) ==
    Disk(File(MasterBytes(endian, row)), File(StringsFile(endian)),
         File(StringsFile(endian)), File(StringsFile(endian)), filenames)

\* The databases of the model: every row behind a good reverse index, every
\* reverse-index file in both byte orders, and databases with a file missing
\* or a master file that is cut or of a foreign magic.
Disks ==
    {DiskOf("Little", row, File(RevGood("Little"))) : row \in Rows}
        \cup {DiskOf("Big", Row(SeekAb, 0, SeekCd, length), File(RevGood("Big"))) :
                 length \in LengthValues}
        \cup UNION {{DiskOf(endian, BaseRow, filenames) : filenames \in RevFiles(endian)} :
                       endian \in Endians}
        \cup {Disk(File(MasterBytes("Little", BaseRow)), NoFile,
                   File(StringsFile("Little")), File(StringsFile("Little")),
                   File(RevGood("Little"))),
              Disk(NoFile, File(StringsFile("Little")), File(StringsFile("Little")),
                   File(StringsFile("Little")), File(RevGood("Little"))),
              Disk(File(<<16, 72>>), File(StringsFile("Little")),
                   File(StringsFile("Little")), File(StringsFile("Little")),
                   File(RevGood("Little"))),
              Disk(File(WordBytes("Little", 7)), File(StringsFile("Little")),
                   File(StringsFile("Little")), File(StringsFile("Little")),
                   File(RevGood("Little"))),
              Disk(File(MasterHeader("Little", 0)), File(StringsFile("Little")),
                   File(StringsFile("Little")), File(StringsFile("Little")),
                   File(RevGood("Little")))}

LookupPaths == {P_a, P_b, P_c, P_zz}

\* The scans of the reverse-index file a cache without an index may make.
MaxScans == 2

NotCalled == [called |-> FALSE, failed |-> FALSE]

TcIdle ==
    /\ disk = Disk(NoFile, NoFile, NoFile, NoFile, NoFile)
    /\ tagcache = None
    /\ lookup = NotCalled
    /\ scans = <<>>

\* TagCache::new
Open ==
    /\ ~tagcache.some
    /\ lookup = NotCalled
    /\ LET new == TagCacheNew(disk)
       IN  IF new.ok
           THEN tagcache' = Some(new.v) /\ UNCHANGED lookup
           ELSE lookup' = [called |-> FALSE, failed |-> TRUE] /\ UNCHANGED tagcache
    /\ UNCHANGED <<disk, scans, logVars, buildVars,
                   eligVars, signVars, respVars, runVars, cfgVars, cmdVars>>

\* TagCache::get_track_info
Lookup ==
    /\ tagcache.some
    /\ tagcache.v.path_index.some \/ Len(scans) < MaxScans
    /\ \E path \in LookupPaths :
          \E call \in {get_track_info(tagcache.v, disk, path)} :
              /\ tagcache' = Some(call.tc)
              /\ lookup' = [called |-> TRUE, path |-> path, r |-> call.r]
              /\ scans' = IF call.scan.some THEN Append(scans, call.scan.v) ELSE scans
    /\ UNCHANGED <<disk, logVars, buildVars,
                   eligVars, signVars, respVars, runVars, cfgVars, cmdVars>>

\* TagCache::close
Close ==
    /\ tagcache.some
    /\ tagcache' = Some(TagCacheClose(tagcache.v))
    /\ UNCHANGED <<disk, lookup, scans, logVars, buildVars,
                   eligVars, signVars, respVars, runVars, cfgVars, cmdVars>>

\* The player adds a file to its database while the reader is open.
PlayerCommits ==
    /\ tagcache.some
    /\ \E endian \in Endians :
          /\ disk[TagFile(TAG_FILENAME)] = File(RevGood(endian))
          /\ disk' = [disk EXCEPT ![TagFile(TAG_FILENAME)] = File(RevAppended(endian))]
    /\ UNCHANGED <<tagcache, lookup, scans, logVars, buildVars,
                   eligVars, signVars, respVars, runVars, cfgVars, cmdVars>>

-----------------------------------------------------------------------------
(* scrobble.rs: the join of samples and metadata *)

ScrobbleTrack(artist, title, album, timestamp, duration) ==
    [artist |-> artist, title |-> title, album |-> album, timestamp |-> timestamp,
     duration |-> duration]

\* Lines 27-37 without the push on `missing`.
build_turn_dropping_missing(entry, call) ==
    IF ~call.r.ok
    THEN [kind |-> "err", asked |-> Some(call.r), tc |-> call.tc, scan |-> call.scan]
    ELSE IF ~call.r.v.some
    THEN [kind |-> "skip", asked |-> Some(call.r), tc |-> call.tc, scan |-> call.scan]
    ELSE [kind |-> "track", asked |-> Some(call.r), tc |-> call.tc, scan |-> call.scan,
          track |-> ScrobbleTrack(call.r.v.v.artist, call.r.v.v.title,
                                  call.r.v.v.album, entry.timestamp,
                                  call.r.v.v.duration_seconds)]

\* Lines 27-37, what the turn does with the result of get_track_info: fail,
\* push the path on `missing`, push a record on `tracks`.
build_turn(entry, call) ==
    IF ~call.r.ok
    THEN [kind |-> "err", asked |-> Some(call.r), tc |-> call.tc, scan |-> call.scan]
    ELSE IF ~call.r.v.some
    THEN [kind |-> "missing", asked |-> Some(call.r), tc |-> call.tc, scan |-> call.scan,
          path |-> entry.path]
    ELSE [kind |-> "track", asked |-> Some(call.r), tc |-> call.tc, scan |-> call.scan,
          track |-> ScrobbleTrack(call.r.v.v.artist, call.r.v.v.title,
                                  call.r.v.v.album, entry.timestamp,
                                  call.r.v.v.duration_seconds)]

\* The body of build_scrobble_tracks' loop, lines 23-37: what the turn does
\* (skip the sample, fail, push its path on `missing`, push a record on
\* `tracks`) and the cache after it.
build_step(entry, tc, d) ==
    IF ~is_scrobble_eligible(entry)
    THEN [kind |-> "skip", asked |-> None, tc |-> tc, scan |-> None]
    ELSE build_turn(entry, get_track_info(tc, d, entry.path))

\* build_scrobble_tracks from the n-th sample on.
RECURSIVE BuildFrom(_, _, _, _, _, _)
BuildFrom(samples, n, tc, d, tracks_, missing_) ==
    IF n > Len(samples)
    THEN [r |-> Ok([tracks |-> tracks_, missing |-> missing_]), tc |-> tc]
    ELSE LET turn == build_step(samples[n], tc, d)
         IN  IF turn.kind = "err" THEN [r |-> Err, tc |-> turn.tc]
             ELSE BuildFrom(samples, n + 1, turn.tc, d,
                            IF turn.kind = "track" THEN Append(tracks_, turn.track)
                            ELSE tracks_,
                            IF turn.kind = "missing" THEN Append(missing_, turn.path)
                            ELSE missing_)

build_scrobble_tracks(samples, tc, d) == BuildFrom(samples, 1, tc, d, <<>>, <<>>)

\* The samples of the model: two timestamps, played long enough or not, on a
\* path of row 1, of row 0 or of no row.
Samples ==
    {PlaybackEntry(timestamp, elapsed_ms, 40000, path) :
        timestamp \in {7, 8}, elapsed_ms \in {5, 20000}, path \in {P_a, P_b, P_zz}}

MaxSamples == 3

\* The databases build_scrobble_tracks runs on: row 1 resolves, has an empty
\* artist, a title that cannot be read, or a negative duration; or the
\* reverse-index file is missing.
BuildDisks ==
    {DiskOf("Little", row, File(RevGood("Little"))) :
        row \in {BaseRow, Row(SeekNull, 0, SeekCd, 1000), Row(SeekAb, 0, SeekCut, 1000),
                 Row(SeekCd, SeekNull, SeekAb, -1000)}}
        \cup {DiskOf("Big", BaseRow, NoFile)}

BuildIdle ==
    /\ playback_entries = <<>>
    /\ entry_no = 0
    /\ built = <<>>
    /\ missing = <<>>
    /\ queried = <<>>
    /\ buildPhase = "idle"

\* lines 22-38: one turn of the for loop
BuildStep ==
    /\ buildPhase = "building"
    /\ entry_no < Len(playback_entries)
    /\ \E turn \in {build_step(playback_entries[entry_no + 1], tagcache.v, disk)} :
           /\ tagcache' = Some(turn.tc)
           /\ scans' = IF turn.scan.some THEN Append(scans, turn.scan.v) ELSE scans
           /\ queried' = IF turn.asked.some
                         THEN Append(queried, [sample |-> entry_no + 1, r |-> turn.asked.v])
                         ELSE queried
           /\ built' = IF turn.kind = "track" THEN Append(built, turn.track) ELSE built
           /\ missing' = IF turn.kind = "missing" THEN Append(missing, turn.path)
                         ELSE missing
           /\ buildPhase' = IF turn.kind = "err" THEN "failed" ELSE buildPhase
    /\ entry_no' = entry_no + 1
    /\ UNCHANGED <<playback_entries, disk, lookup, logVars,
                   eligVars, signVars, respVars, runVars, cfgVars, cmdVars>>

\* line 39: Ok((tracks, missing))
BuildReturn ==
    /\ buildPhase = "building"
    /\ entry_no = Len(playback_entries)
    /\ buildPhase' = "returned"
    /\ UNCHANGED <<playback_entries, entry_no, built, missing, queried, tcVars, logVars,
                   eligVars, signVars, respVars, runVars, cfgVars, cmdVars>>

FilesIdle == LogIdle /\ TcIdle /\ BuildIdle

-----------------------------------------------------------------------------
(* main.rs: handle_scrobble *)

\* ScrobbleArgs with its defaults: no filter, truncate, no dry run.
ScrobbleArgs(service, username, truncate, dry_run) ==
    [service |-> service, username |-> username, truncate |-> truncate,
     dry_run |-> dry_run]

CmdIdle == args = ScrobbleArgs(None, None, TRUE, FALSE) /\ cmdPhase = "idle"

\* config.rs, iter_accounts
iter_accounts(cfg, service) ==
    LET wanted(account) == ~service.some \/ service.v = account.service
    IN  SelectSeq(cfg.accounts, wanted)

\* lines 207-214: the accounts of the service and of the username asked for
select_accounts(cfg, a) ==
    LET wanted(account) == ~a.username.some \/ account.username = a.username.v
    IN  SelectSeq(iter_accounts(cfg, a.service), wanted)

\* The UTF-8 bytes of the characters the paths of the model are made of.
Utf8Byte(c) ==
    IF c = "a" THEN 97 ELSE IF c = "b" THEN 98 ELSE IF c = "c" THEN 99
    ELSE IF c = "z" THEN 122 ELSE IF c = ":" THEN 58 ELSE 63

\* A String is its UTF-8 bytes: the path of a sample as the reverse index,
\* whose keys come from the bytes of the file, compares it.
AsBytes(text) == [k \in 1 .. Len(text) |-> Utf8Byte(text[k])]

\* No playback.log at the path: exists() is false.
MissingLog == [ok |-> FALSE, exists |-> FALSE]

\* truncate_playback_log: the file is written empty.
truncate_playback_log(file) == Ok(<<>>)

\* lines 248-254: the log after the run, given the failures it counted.
finish(file, a, failed) ==
    IF a.truncate THEN truncate_playback_log(file) ELSE file

\* lines 205-226: the accounts are selected and the log is looked for; then
\* parse_playback_log is called.
SelectAccounts ==
    /\ cmdPhase = "start"
    /\ LET selected == select_accounts(config, args)
       IN  IF selected = <<>> \/ raw = MissingLog
           THEN cmdPhase' = "failed" /\ UNCHANGED <<accounts, logPhase>>
           ELSE /\ accounts' = selected
                /\ logPhase' = "reading"
                /\ cmdPhase' = "parsing"
    /\ UNCHANGED <<args, services, tracks, pc, acct, trk, session_key, inflight, sent,
                   errors, results, failures, acctState, obtained, submitted, counted,
                   raw, zone, line_no, log_entries, tcVars, buildVars,
                   eligVars, signVars, respVars, cfgVars>>

\* lines 227-232: no entries is an error; TagCache::new; then
\* build_scrobble_tracks is called on the entries.
OpenTagCache ==
    /\ cmdPhase = "parsing"
    /\ logPhase = "returned"
    /\ LET new == TagCacheNew(disk)
       IN  IF log_entries = <<>> \/ ~new.ok
           THEN /\ cmdPhase' = "failed"
                /\ UNCHANGED <<tagcache, playback_entries, buildPhase>>
           ELSE /\ tagcache' = Some(new.v)
                /\ playback_entries' =
                      [k \in 1 .. Len(log_entries) |->
                          [log_entries[k] EXCEPT !.path = AsBytes(@)]]
                /\ buildPhase' = "building"
                /\ cmdPhase' = "building"
    /\ UNCHANGED <<args, disk, lookup, scans, entry_no, built, missing, queried, logVars,
                   eligVars, signVars, respVars, runVars, cfgVars>>

\* lines 233-246: the cache is closed; no record is an error; a dry run
\* returns; otherwise scrobble_for_accounts starts on the first account.
StartRun ==
    /\ cmdPhase = "building"
    /\ buildPhase = "returned"
    /\ tagcache' = Some(TagCacheClose(tagcache.v))
    /\ IF built = <<>> \/ args.dry_run
       THEN /\ cmdPhase' = IF built = <<>> THEN "failed" ELSE "returned"
            /\ UNCHANGED <<tracks, pc, acct, acctState, obtained, submitted, counted>>
       ELSE /\ cmdPhase' = "submitting"
            /\ tracks' = built
            /\ pc' = "next_account"
            /\ acct' = 1
            /\ acctState' = [i \in 1 .. Len(accounts) |-> "Unauthenticated"]
            /\ obtained' = [i \in 1 .. Len(accounts) |-> <<>>]
            /\ submitted' = [i \in 1 .. Len(accounts) |-> 0]
            /\ counted' = [i \in 1 .. Len(accounts) |-> 0]
    /\ UNCHANGED <<args, services, accounts, trk, session_key, inflight, sent, errors,
                   results, failures, disk, lookup, scans, logVars, buildVars,
                   eligVars, signVars, respVars, cfgVars>>

\* lines 226, 232 and 246: an error of parse_playback_log, of
\* build_scrobble_tracks or of scrobble_for_accounts is returned with `?`.
Bail ==
    /\ \/ cmdPhase = "parsing" /\ logPhase = "failed"
       \/ cmdPhase = "building" /\ buildPhase = "failed"
       \/ cmdPhase = "submitting" /\ pc = "aborted"
    /\ cmdPhase' = "failed"
    /\ UNCHANGED <<args, runVars, fileVars, eligVars, signVars, respVars, cfgVars>>

\* lines 246-255: scrobble_for_accounts has returned Ok(failures)
Complete ==
    /\ cmdPhase = "submitting"
    /\ pc = "done"
    /\ raw' = finish(raw, args, failures)
    /\ cmdPhase' = "returned"
    /\ UNCHANGED <<args, zone, line_no, log_entries, logPhase, tcVars, buildVars,
                   runVars, eligVars, signVars, respVars, cfgVars>>

-----------------------------------------------------------------------------
(* The specifications *)

InitEligible ==
    /\ sample \in [elapsed_ms : ElapsedValues, total_ms : TotalValues]
    /\ verdict = "pending"
    /\ SignIdle
    /\ RespIdle
    /\ RunIdle
    /\ CfgIdle
    /\ FilesIdle
    /\ CmdIdle

NextEligible == CheckEligible

SpecEligible == InitEligible /\ [][NextEligible]_vars

InitSign ==
    /\ params \in ParamLists
    /\ secret \in Secrets
    /\ baseline = Md5Hex(<<>>)
    /\ signature = Md5Hex(<<>>)
    /\ signPhase = "new"
    /\ EligIdle
    /\ RespIdle
    /\ RunIdle
    /\ CfgIdle
    /\ FilesIdle
    /\ CmdIdle

NextSign == Sign \/ Reorder

SpecSign == InitSign /\ [][NextSign]_vars

InitResponse ==
    /\ payload \in Payloads
    /\ stage = "received"
    /\ outcome = Pending
    /\ EligIdle
    /\ SignIdle
    /\ RunIdle
    /\ CfgIdle
    /\ FilesIdle
    /\ CmdIdle

NextResponse == CheckApiError \/ CheckScrobbleResult

SpecResponse == InitResponse /\ [][NextResponse]_vars

\* The t-th record of a run: every second one without a duration.
RunTrack(t) == ScrobbleTrack(S_Ab, S_Cd, None, t, (t % 2) * 185)

\* handle_scrobble calls scrobble_for_accounts with at least one account and
\* at least one record.
Init ==
    /\ services \in SUBSET {"lastfm", "other"}
    /\ accounts \in UNION {[1 .. n -> [service : ServiceNames]] : n \in 1 .. MaxAccounts}
    /\ tracks \in {[t \in 1 .. n |-> RunTrack(t)] : n \in 1 .. MaxTracks}
    /\ pc = "next_account"
    /\ acct = 1
    /\ trk = 0
    /\ session_key = <<>>
    /\ inflight = {}
    /\ sent = <<>>
    /\ errors = <<>>
    /\ results = <<>>
    /\ failures = 0
    /\ acctState = [i \in 1 .. Len(accounts) |-> "Unauthenticated"]
    /\ obtained = [i \in 1 .. Len(accounts) |-> <<>>]
    /\ submitted = [i \in 1 .. Len(accounts) |-> 0]
    /\ counted = [i \in 1 .. Len(accounts) |-> 0]
    /\ EligIdle
    /\ SignIdle
    /\ RespIdle
    /\ CfgIdle
    /\ FilesIdle
    /\ CmdIdle

Next ==
    \/ MissingKeys
    \/ UnsupportedService
    \/ SendAuth
    \/ AuthReply
    \/ SendScrobble
    \/ ScrobbleReply
    \/ FinishAccount
    \/ Finish

Spec == Init /\ [][Next]_vars

\* handle_account on a configuration file with at most two accounts.
InitConfig ==
    /\ config \in [accounts : LoadedAccounts]
    /\ op = [name |-> "load"]
    /\ EligIdle
    /\ SignIdle
    /\ RespIdle
    /\ RunIdle
    /\ FilesIdle
    /\ CmdIdle

NextConfig == AddAccount \/ RemoveAccount

SpecConfig == InitConfig /\ [][NextConfig]_vars

\* parse_playback_log on a log that cannot be read or holds up to MaxLines
\* lines.
InitLog ==
    /\ raw \in {Err} \cup {Ok(text) : text \in LogTexts}
    /\ zone \in Zones
    /\ line_no = 0
    /\ log_entries = <<>>
    /\ logPhase = "reading"
    /\ TcIdle
    /\ BuildIdle
    /\ EligIdle
    /\ SignIdle
    /\ RespIdle
    /\ RunIdle
    /\ CfgIdle
    /\ CmdIdle

NextLog == ReadFails \/ ReadLine \/ ReturnEntries

SpecLog == InitLog /\ [][NextLog]_vars

\* A reader over one of the databases, from before TagCache::new.
InitTagCache ==
    /\ disk \in Disks
    /\ tagcache = None
    /\ lookup = NotCalled
    /\ scans = <<>>
    /\ LogIdle
    /\ BuildIdle
    /\ EligIdle
    /\ SignIdle
    /\ RespIdle
    /\ RunIdle
    /\ CfgIdle
    /\ CmdIdle

NextTagCache == Open \/ Lookup \/ Close \/ PlayerCommits

SpecTagCache == InitTagCache /\ [][NextTagCache]_vars

\* build_scrobble_tracks on up to MaxSamples samples and a reader that
\* TagCache::new has just returned.
InitBuild ==
    /\ disk \in BuildDisks
    /\ tagcache = Some(TagCacheNew(disk).v)
    /\ lookup = NotCalled
    /\ scans = <<>>
    /\ playback_entries \in UNION {[1 .. n -> Samples] : n \in 0 .. MaxSamples}
    /\ entry_no = 0
    /\ built = <<>>
    /\ missing = <<>>
    /\ queried = <<>>
    /\ buildPhase = "building"
    /\ LogIdle
    /\ EligIdle
    /\ SignIdle
    /\ RespIdle
    /\ RunIdle
    /\ CfgIdle
    /\ CmdIdle

NextBuild == BuildStep \/ BuildReturn

SpecBuild == InitBuild /\ [][NextBuild]_vars

\* The accounts of the configurations handle_scrobble loads.
CommandAccounts ==
    {<<>>,
     <<Account("lastfm", "alice", Md5Hex(<<112>>))>>,
     <<Account("librefm", "bob", Md5Hex(<<112>>))>>,
     <<Account("librefm", "alice", Md5Hex(<<112>>)),
       Account("lastfm", "bob", Md5Hex(<<113>>))>>,
     <<Account("other", "alice", Md5Hex(<<112>>))>>}

\* The logs handle_scrobble runs on: none, unreadable, empty, one eligible
\* sample of a path of row 1, that and one of row 0, one sample played too
\* short.
CommandLogs ==
    {MissingLog, Err, Ok(<<>>),
     Ok(JoinLines(<<GoodLine>>, FALSE)),
     Ok(JoinLines(<<GoodLine, LineOf(<<"7">>, <<"2", "0", "0", "0", "0">>,
                                     <<"4", "0", "0", "0", "0">>, <<"b">>)>>, FALSE)),
     Ok(JoinLines(<<LineOf(<<"7">>, <<"5">>, <<"4", "0", "0", "0", "0">>, <<"a">>)>>,
                  FALSE))}

\* The databases handle_scrobble runs on: row 1 with every stored duration
\* and without an album; no master file; no reverse-index file.
CommandDisks ==
    {DiskOf("Little", Row(SeekAb, 0, SeekCd, length), File(RevGood("Little"))) :
        length \in LengthValues}
        \cup {DiskOf("Big", BaseRow, NoFile),
              Disk(NoFile, File(StringsFile("Little")), File(StringsFile("Little")),
                   File(StringsFile("Little")), File(RevGood("Little")))}

\* The command lines: every use of --no-truncate and --dry-run, and a run
\* limited to a service or to a username.
CommandArgs ==
    {ScrobbleArgs(None, None, truncate, dry_run) :
        truncate \in BOOLEAN, dry_run \in BOOLEAN}
        \cup {ScrobbleArgs(Some("librefm"), None, TRUE, FALSE),
              ScrobbleArgs(None, Some("alice"), TRUE, FALSE)}

\* handle_scrobble from its first line.
InitScrobble ==
    /\ args \in CommandArgs
    /\ cmdPhase = "start"
    /\ config \in [accounts : CommandAccounts]
    /\ op = [name |-> "idle"]
    /\ services \in {{}, {"lastfm", "other"}}
    /\ accounts = <<>>
    /\ tracks = <<>>
    /\ pc = "idle"
    /\ acct = 0
    /\ trk = 0
    /\ session_key = <<>>
    /\ inflight = {}
    /\ sent = <<>>
    /\ errors = <<>>
    /\ results = <<>>
    /\ failures = 0
    /\ acctState = <<>>
    /\ obtained = <<>>
    /\ submitted = <<>>
    /\ counted = <<>>
    /\ raw \in CommandLogs
    /\ zone = [offset |-> 0, gap |-> {}]
    /\ line_no = 0
    /\ log_entries = <<>>
    /\ logPhase = "idle"
    /\ disk \in CommandDisks
    /\ tagcache = None
    /\ lookup = NotCalled
    /\ scans = <<>>
    /\ BuildIdle
    /\ EligIdle
    /\ SignIdle
    /\ RespIdle

NextScrobble ==
    \/ SelectAccounts
    \/ ReadFails
    \/ ReadLine
    \/ ReturnEntries
    \/ OpenTagCache
    \/ BuildStep
    \/ BuildReturn
    \/ StartRun
    \/ MissingKeys
    \/ UnsupportedService
    \/ SendAuth
    \/ AuthReply
    \/ SendScrobble
    \/ ScrobbleReply
    \/ FinishAccount
    \/ Finish
    \/ Bail
    \/ Complete

SpecScrobble == InitScrobble /\ [][NextScrobble]_vars

-----------------------------------------------------------------------------
(* Claims *)

\* What the eligibility rule accepts, stated with floor division.
EligibleByRule(s) ==
    /\ s.total_ms > 0
    /\ (s.total_ms \div 1000) >= 30
    /\ s.elapsed_ms >= Min(s.total_ms \div 2, 240000)

\* C1: is_scrobble_eligible accepts a sample if and only if total_ms > 0,
\* total_ms / 1000 >= 30 and elapsed_ms >= min(total_ms / 2, 240000); the four
\* samples of the specification get the verdicts it gives.
C1_EligibilityRule ==
    verdict \in {"accept", "reject"} =>
        /\ (verdict = "accept") <=> EligibleByRule(sample)
        /\ sample.total_ms = 29000 => verdict = "reject"
        /\ (sample.total_ms = 30000 /\ sample.elapsed_ms = 15000) => verdict = "accept"
        /\ (sample.total_ms = 600000 /\ sample.elapsed_ms = 239000) => verdict = "reject"
        /\ (sample.total_ms = 600000 /\ sample.elapsed_ms = 240000) => verdict = "accept"

\* A sample exactly on the capped threshold has been accepted.
C1_Witness ==
    /\ verdict = "accept"
    /\ sample.total_ms = 600000
    /\ sample.elapsed_ms = 240000

\* The orders of the list in which no name is byte-wise greater than a later one.
SortedOrders(ps) ==
    {q \in {[i \in 1 .. Len(ps) |-> ps[f[i]]] :
                f \in {g \in [1 .. Len(ps) -> 1 .. Len(ps)] :
                          \A i, j \in 1 .. Len(ps) : i # j => g[i] # g[j]}} :
        \A i, j \in 1 .. Len(q) : i < j => ~BytesLess(q[j].name, q[i].name)}

\* C10: signing a parameter list gives the same digested text, and so the same
\* signature, in whatever order the parameters are pushed.
C10_SignOrderIndependent ==
    signPhase = "signed" =>
        /\ signature = baseline
        /\ \A q \in SortedOrders(params) :
              signature = [md5 |-> ConcatPairs(q) \o secret]

\* A list of three parameters signed again in an order that is not sorted.
C10_Witness ==
    /\ signPhase = "signed"
    /\ Len(params) = 3
    /\ BytesLess(params[2].name, params[1].name)
    /\ BytesLess(params[3].name, params[2].name)
    /\ signature = baseline

-----------------------------------------------------------------------------
(* Claims about a scrobble run *)

\* The positions in the log of requests that hold a request of the given kind.
SentAt(method, i) ==
    {p \in 1 .. Len(sent) : sent[p].method = method /\ sent[p].acct = i}

SentTrack(i, t) == {p \in SentAt("track.scrobble", i) : sent[p].track = t}

\* scrobble_tracks has left its loop and is about to return its error list.
TracksReturned == pc = "scrobbling" /\ trk > Len(tracks)

\* C2: scrobble_tracks sends exactly one track.scrobble request for every
\* record whatever the outcome of the earlier records, and its error list has
\* exactly one entry per failed record.
C2_OneRequestPerRecord ==
    /\ pc \in {"scrobbling", "scrobble_wait"} =>
          /\ \A t \in 1 .. Len(tracks) :
                Cardinality(SentTrack(acct, t)) =
                    (IF t < trk \/ (t = trk /\ pc = "scrobble_wait") THEN 1 ELSE 0)
          /\ Len(results) = trk - 1
          /\ Len(errors) = Cardinality({t \in 1 .. Len(results) : results[t] # "Ok"})
          /\ \A e \in 1 .. Len(errors) :
                /\ errors[e] \in 1 .. Len(results)
                /\ results[errors[e]] # "Ok"
                /\ \A f \in 1 .. Len(errors) : e < f => errors[e] < errors[f]
    /\ TracksReturned =>
          /\ Len(results) = Len(tracks)
          /\ \A t \in 1 .. Len(tracks) : Cardinality(SentTrack(acct, t)) = 1

\* scrobble_tracks returns after a first record that failed and a later one
\* that was still submitted.
C2_Witness ==
    /\ TracksReturned
    /\ Len(tracks) >= 2
    /\ results[1] = "ScrobbleRejected"
    /\ results[2] = "Ok"
    /\ errors = <<1>>

\* C3: requests are strictly sequential: at most one is in flight, the
\* submissions of an account go out in the order of the records after its
\* authentication, and every request of an account is answered before the first
\* request of the next account is sent.
C3_StrictlySequential ==
    /\ Cardinality(inflight) <= 1
    /\ \A r \in inflight : Len(sent) > 0 /\ r = sent[Len(sent)]
    /\ \A p, q \in 1 .. Len(sent) :
          p < q =>
              /\ sent[p].acct <= sent[q].acct
              /\ sent[p].acct = sent[q].acct =>
                    /\ sent[q].method = "track.scrobble"
                    /\ sent[p].track < sent[q].track

\* The second account's authentication goes out after the first account's
\* submissions have all been answered.
C3_Witness ==
    /\ Len(sent) >= 4
    /\ sent[Len(sent)] = AuthRequest(2)
    /\ sent[Len(sent)] \in inflight
    /\ Cardinality(SentAt("track.scrobble", 1)) = 2

\* The state part of the one-exchange rule: one auth.getMobileSession request
\* per constructed client, none of its submissions without a session, each
\* submission under the key its own account obtained.
C4_Invariant ==
    /\ \A i \in 1 .. Len(accounts) :
          /\ Cardinality(SentAt("auth.getMobileSession", i)) <= 1
          /\ acctState[i] \in {"Authenticated", "Failed"} =>
                Cardinality(SentAt("auth.getMobileSession", i)) = 1
          /\ acctState[i] # "Authenticated" => SentAt("track.scrobble", i) = {}
          /\ acctState[i] = "Authenticated" <=> obtained[i] # <<>>
    /\ \A p \in 1 .. Len(sent) :
          sent[p].method = "track.scrobble" =>
              /\ acctState[sent[p].acct] = "Authenticated"
              /\ sent[p].sk = obtained[sent[p].acct]
              /\ sent[p].sk = KeyFor(sent[p].acct)

\* C4: building the client performs exactly one auth.getMobileSession
\* exchange; an account whose exchange failed is Failed for good, is never
\* authenticated again and never gets a track.scrobble request; every
\* track.scrobble request carries the session key its own account obtained.
C4_AuthenticateOnce ==
    /\ []C4_Invariant
    /\ [][\A i \in 1 .. Len(accounts) :
            acctState[i] = "Failed" => acctState'[i] = "Failed"]_vars

\* The run is over, its first account failed to authenticate and its second
\* one was sent a submission.
C4_Witness ==
    /\ pc = "done"
    /\ Len(accounts) = 2
    /\ acctState[1] = "Failed"
    /\ acctState[2] = "Authenticated"
    /\ SentAt("track.scrobble", 2) # {}

\* The services the client supports, and the accounts that have API keys.
Supported(i) == accounts[i].service \in {"lastfm", "librefm"}
KeysConfigured(i) == accounts[i].service = "librefm" \/ accounts[i].service \in services

RECURSIVE SumTo(_, _)
SumTo(f, n) == IF n = 0 THEN 0 ELSE f[n] + SumTo(f, n - 1)

-----------------------------------------------------------------------------
(* Claims about the interpretation of a response *)

\* The response is a JSON object with a top-level `error` field.
HasError(p) == p.t = "obj" /\ "error" \in DOMAIN p.m

Field(v, key) == IF v.t = "obj" /\ key \in DOMAIN v.m THEN v.m[key] ELSE Missing

\* The number a counter states, as a JSON number or as a decimal string; -1
\* when the counter is absent or states none.
CounterOf(p, name) ==
    LET c == Field(Field(Field(p, "scrobbles"), "@attr"), name)
    IN  IF c.t = "num" /\ c.n >= 0 THEN c.n
        ELSE IF c.t = "str" /\ c.s # <<>> /\ \A i \in 1 .. Len(c.s) : IsDigit(c.s[i])
        THEN DigitsValue(c.s, 0)
        ELSE -1

AllAccepted(p) == CounterOf(p, "accepted") > 0 /\ CounterOf(p, "ignored") = 0

\* The first scrobble entry: the object itself, or the first element of the array.
FirstEntry(p) ==
    LET s == Field(Field(p, "scrobbles"), "scrobble")
    IN  IF s.t = "obj" THEN s
        ELSE IF s.t = "arr" /\ Len(s.e) > 0 THEN s.e[1]
        ELSE Missing

FirstIgnored(p) == Field(FirstEntry(p), "ignoredMessage")

\* The code and the message the first entry's ignoredMessage states.
IgnoredCode(p) ==
    LET c == Field(FirstIgnored(p), "code")
    IN  IF c.t = "str" THEN c.s ELSE S_unknown

IgnoredText(p) ==
    LET m == FirstIgnored(p)
    IN  IF m.t = "str" THEN m.s
        ELSE IF m.t = "num" /\ m.n >= 0 THEN U32ToString(m.n)
        ELSE IF Field(m, "#text").t = "str" THEN Field(m, "#text").s
        ELSE S_rejected

\* C6: a response with a top-level `error` field fails with an API error
\* whatever its `scrobbles` part says: the scrobble-specific check is never
\* reached.
C6_ApiErrorFirst ==
    HasError(payload) =>
        /\ stage # "api_checked"
        /\ stage = "done" => outcome.kind = "ApiError"

\* A response that reports an error next to an accepted scrobble has failed
\* with the API error.
C6_Witness ==
    /\ stage = "done"
    /\ HasError(payload)
    /\ AllAccepted(payload)
    /\ outcome.kind = "ApiError"
    /\ outcome.code = <<"6">>

\* C7: a response without a top-level `error` whose first scrobble entry
\* carries an ignoredMessage with code "91" is a success, in every shape and
\* under either matcher.
C7_DuplicateIsSuccess ==
    (stage = "done" /\ payload # NotJson /\ ~HasError(payload)
        /\ IgnoredCode(payload) = S_91) => outcome.ok

\* C8: a response without a top-level `error` that is not (accepted > 0 and
\* ignored == 0) and whose ignored code is not "91" fails with
\* ScrobbleRejected, the code and the message being those of the first
\* scrobble's ignoredMessage or "unknown" and "Scrobble rejected".
C8_OtherwiseRejected ==
    (stage = "done" /\ payload # NotJson /\ ~HasError(payload)
        /\ ~AllAccepted(payload) /\ IgnoredCode(payload) # S_91) =>
            outcome = Failure("ScrobbleRejected", IgnoredCode(payload), IgnoredText(payload))

-----------------------------------------------------------------------------
(* build_scrobble_tracks *)

\* The samples consumed so far that the rule makes eligible.
EligibleSamples ==
    {i \in 1 .. entry_no : EligibleByRule(playback_entries[i])}

\* The calls that returned Some, and those that returned None.
IsFound(q) == q.r.ok /\ q.r.v.some
IsAbsent(q) == q.r.ok /\ ~q.r.v.some

\* C11: build_scrobble_tracks partitions the eligible samples: get_track_info
\* is called once for every eligible sample and for no other, in input order;
\* the records are the joins of the samples whose call returned Some, the
\* missing list holds the paths of those whose call returned None, both in
\* input order; when the call returns Ok the two lists together have one
\* element per eligible sample.
C11_PartitionsEligible ==
    LET found == SelectSeq(queried, IsFound)
        absent == SelectSeq(queried, IsAbsent)
    IN  /\ \A k \in 1 .. Len(queried) : queried[k].sample \in EligibleSamples
        /\ \A i \in EligibleSamples :
              Cardinality({k \in 1 .. Len(queried) : queried[k].sample = i}) = 1
        /\ \A k, l \in 1 .. Len(queried) :
              k < l => queried[k].sample < queried[l].sample
        /\ Len(built) = Len(found)
        /\ \A k \in 1 .. Len(found) :
              LET s == playback_entries[found[k].sample]
                  info == found[k].r.v.v
              IN  built[k] = [artist |-> info.artist, title |-> info.title,
                              album |-> info.album, timestamp |-> s.timestamp,
                              duration |-> info.duration_seconds]
        /\ Len(missing) = Len(absent)
        /\ \A k \in 1 .. Len(absent) :
              missing[k] = playback_entries[absent[k].sample].path
        /\ buildPhase = "returned" =>
              Len(built) + Len(missing) = Cardinality(EligibleSamples)

\* The call has returned a record and a missing path for three samples, one
\* of which was not eligible.
C11_Witness ==
    /\ buildPhase = "returned"
    /\ Len(playback_entries) = 3
    /\ Cardinality(EligibleSamples) = 2
    /\ Len(built) = 1
    /\ missing = <<P_zz>>

\* C12: the record list build_scrobble_tracks returns holds no record twice,
\* also for a log that holds the same eligible line more than once.
C12_Deduplicated ==
    buildPhase = "returned" =>
        \A k, l \in 1 .. Len(built) : k # l => built[k] # built[l]

-----------------------------------------------------------------------------
(* get_track_info *)

\* The reverse index the reader holds, and the master row the last call
\* looked up.
IndexHeld == tagcache.v.path_index.v
Indexed == lookup.path \in DOMAIN IndexHeld
RowRead == read_index_entry(tagcache.v, disk, IndexHeld[lookup.path])

\* The sub-header at a seek offset of the string file of a tag kind.
SubHeaderAt(tag, seek) ==
    ReadAt(disk[TagFile(tag)].bytes, seek, TAGFILE_ENTRY_HEADER_SIZE)

LengthAt(tag, seek) == read_u32(tagcache.v.endian, SubSeq(SubHeaderAt(tag, seek), 1, 4))

\* The string file is missing, or it ends inside the string the sub-header
\* announces: an I/O error, not a value.
Unreadable(tag, seek) ==
    /\ seek > 0
    /\ \/ ~disk[TagFile(tag)].exists
       \/ /\ Len(SubHeaderAt(tag, seek)) = TAGFILE_ENTRY_HEADER_SIZE
          /\ \/ LengthAt(tag, seek).wide
             \/ seek + TAGFILE_ENTRY_HEADER_SIZE + LengthAt(tag, seek).low
                    > Len(disk[TagFile(tag)].bytes)

\* The field resolves to no value or to the empty string: a seek offset <= 0,
\* a short sub-header, a length of zero, a string that starts with a null.
NoValue(tag, seek) ==
    \/ seek <= 0
    \/ /\ ~Unreadable(tag, seek)
       /\ \/ Len(SubHeaderAt(tag, seek)) < TAGFILE_ENTRY_HEADER_SIZE
          \/ U32IsZero(LengthAt(tag, seek))
          \/ disk[TagFile(tag)].bytes[seek + TAGFILE_ENTRY_HEADER_SIZE + 1] = 0

\* C13: get_track_info returns None for a path the reverse index does not
\* hold, and for an indexed row whose artist or title resolves to no value or
\* to the empty string, whatever the album and the duration; a TrackInfo it
\* returns, and a record built from one, has a non-empty artist and a
\* non-empty title.
C13_NoneWithoutArtistOrTitle ==
    /\ (lookup.called /\ lookup.r.ok) =>
          /\ ~Indexed => lookup.r = Ok(None)
          /\ (Indexed /\ RowRead.ok
                /\ (NoValue(TAG_ARTIST, RowRead.v[TAG_ARTIST])
                      \/ NoValue(TAG_TITLE, RowRead.v[TAG_TITLE])))
                => lookup.r = Ok(None)
          /\ lookup.r.v.some =>
                lookup.r.v.v.artist # <<>> /\ lookup.r.v.v.title # <<>>
    /\ (lookup.called /\ tagcache.v.path_index.some /\ Indexed /\ RowRead.ok
          /\ (NoValue(TAG_ARTIST, RowRead.v[TAG_ARTIST])
                \/ NoValue(TAG_TITLE, RowRead.v[TAG_TITLE]))
          /\ \A tag \in {TAG_ARTIST, TAG_TITLE, TAG_ALBUM} :
                ~Unreadable(tag, RowRead.v[tag]))
          => lookup.r = Ok(None)
    /\ \A k \in 1 .. Len(built) : built[k].artist # <<>> /\ built[k].title # <<>>

\* A row whose artist and album resolve and whose title starts with a null
\* byte has been looked up.
C13_Witness ==
    /\ lookup.called
    /\ lookup.path = P_a
    /\ lookup.r = Ok(None)
    /\ Indexed
    /\ RowRead.ok
    /\ RowRead.v[TAG_ARTIST] = SeekAb
    /\ RowRead.v[TAG_ALBUM] = SeekCd
    /\ RowRead.v[TAG_TITLE] = SeekNull

-----------------------------------------------------------------------------
(* The reverse index of a reader *)

SuccessfulScans == {k \in 1 .. Len(scans) : scans[k].ok}

\* TagCache::new leaves the index unbuilt; a lookup that returns Ok has built
\* it from the last scan; no scan follows a successful one.
C14_Invariant ==
    tagcache.some =>
        /\ ~lookup.called => ~tagcache.v.path_index.some /\ scans = <<>>
        /\ Cardinality(SuccessfulScans) <= 1
        /\ \A k \in SuccessfulScans : k = Len(scans)
        /\ tagcache.v.path_index.some <=> SuccessfulScans # {}
        /\ tagcache.v.path_index.some =>
              tagcache.v.path_index.v = scans[Len(scans)].index
        /\ (lookup.called /\ lookup.r.ok) => tagcache.v.path_index.some

\* C14: within the lifetime of a TagCache the reverse-index file is scanned
\* successfully at most once: new does not build the index, the first lookup
\* does, and from then on no lookup and no close scans the file again or
\* changes the mapping from paths to rows.
C14_IndexBuiltOnce ==
    /\ []C14_Invariant
    /\ [][(tagcache.some /\ tagcache.v.path_index.some) =>
            /\ tagcache'.v.path_index = tagcache.v.path_index
            /\ scans' = scans]_vars

\* The index was built by one scan, the handles were closed, the player added
\* a path to the reverse-index file, and a later lookup reopened the string
\* files but not the reverse-index file.
C14_Witness ==
    /\ tagcache.some
    /\ lookup.called
    /\ lookup.path = P_b
    /\ lookup.r.ok /\ lookup.r.v.some
    /\ Len(scans) = 1
    /\ tagcache.v.tag_files = {TAG_ARTIST, TAG_TITLE, TAG_ALBUM}
    /\ \E endian \in Endians :
          disk[TagFile(TAG_FILENAME)] = File(RevAppended(endian))

-----------------------------------------------------------------------------
(* parse_playback_log *)

\* A line without the whitespace around it.
Cleaned(line) ==
    LET inked == {i \in 1 .. Len(line) : ~IsWhitespace(line[i])}
    IN  IF inked = {} THEN <<>>
        ELSE SubSeq(line, CHOOSE i \in inked : \A j \in inked : i <= j,
                          CHOOSE i \in inked : \A j \in inked : i >= j)

\* The position of the n-th colon of a text that has n colons.
ColonAt(t, n) ==
    CHOOSE i \in 1 .. Len(t) :
        t[i] = ":" /\ Cardinality({j \in 1 .. i : t[j] = ":"}) = n

\* The text between the colons n - 1 and n, for n in 1 .. 3
FieldOf(t, n) ==
    SubSeq(t, (IF n = 1 THEN 0 ELSE ColonAt(t, n - 1)) + 1, ColonAt(t, n) - 1)

\* A decimal integer of 64 bits: an optional sign and at least one digit.
IsIntegerText(f) ==
    \E sign \in {<<>>, <<"+">>, <<"-">>} :
        \E digits \in {SubSeq(f, Len(sign) + 1, Len(f))} :
            /\ f = sign \o digits
            /\ digits # <<>>
            /\ \A i \in 1 .. Len(digits) : IsDigit(digits[i])
            /\ ~Overflows(sign = <<"-">>, digits)

IntegerOf(f) ==
    IF Head(f) = "-" THEN 0 - DigitsValue(Tail(f), 0)
    ELSE IF Head(f) = "+" THEN DigitsValue(Tail(f), 0)
    ELSE DigitsValue(f, 0)

\* The line gives a sample.
GivesSample(line) ==
    LET t == Cleaned(line)
    IN  /\ t # <<>>
        /\ Head(t) # "#"
        /\ Cardinality({i \in 1 .. Len(t) : t[i] = ":"}) >= 3
        /\ \A n \in 1 .. 3 : IsIntegerText(FieldOf(t, n))

\* C16: parse_playback_log does not fail on the content of a line; its
\* entries are, in line order, one sample for every line that, trimmed, is not
\* blank, does not start with '#', has at least three colons and three
\* integers as its first three fields; the path of the sample is all that
\* follows the third colon; every other line is skipped.
C16_OneSamplePerGoodLine ==
    raw.ok =>
        LET lines == Lines(raw.v)
            numbers == [i \in 1 .. line_no |-> i]
            Good(i) == GivesSample(lines[i])
            good == SelectSeq(numbers, Good)
        IN  /\ logPhase # "failed"
            /\ Len(log_entries) = Len(good)
            /\ \A k \in 1 .. Len(good) :
                  LET t == Cleaned(lines[good[k]])
                      stamp == IntegerOf(FieldOf(t, 1))
                  IN  /\ log_entries[k].path = SubSeq(t, ColonAt(t, 3) + 1, Len(t))
                      /\ log_entries[k].elapsed_ms = IntegerOf(FieldOf(t, 2))
                      /\ log_entries[k].total_ms = IntegerOf(FieldOf(t, 3))
                      /\ log_entries[k].timestamp \in {stamp, stamp - zone.offset}

\* A log of two lines has been read: the first has no number as its
\* timestamp, the second gave a sample whose path holds a colon.
C16_Witness ==
    /\ logPhase = "returned"
    /\ raw.ok
    /\ Len(Lines(raw.v)) = 2
    /\ Lines(raw.v)[1] # <<>>
    /\ Head(Lines(raw.v)[1]) = "x"
    /\ Len(log_entries) = 1
    /\ log_entries[1].path = <<"a", ":", "b">>
    /\ log_entries[1].elapsed_ms = 5

-----------------------------------------------------------------------------
(* The scan of the reverse-index file *)

\* The entry a scan read at its k-th sub-header: the length and the row
\* identifier of the sub-header, and the path before the first null.
EntryLength(sc, k) ==
    read_u32(sc.endian, SubSeq(sc.bytes, sc.offsets[k] + 1, sc.offsets[k] + 4))
EntryRow(sc, k) ==
    read_u32(sc.endian, SubSeq(sc.bytes, sc.offsets[k] + 5, sc.offsets[k] + 8))
EntryPath(sc, k) ==
    BeforeNull(SubSeq(sc.bytes, sc.offsets[k] + 9,
                      sc.offsets[k] + 8 + EntryLength(sc, k).low))

\* The entry count of the header, or more than the file can hold.
EntryCount(sc) ==
    IF Len(sc.bytes) < 12 THEN 0
    ELSE LET count == read_u32(sc.endian, SubSeq(sc.bytes, 9, 12))
         IN  IF count.wide THEN Len(sc.bytes) ELSE count.low

\* After a header of the given size the scan reads entry after entry, each
\* right after the string of the one before, up to the entry count or the end
\* of the file, and maps the path of every entry of non-zero length to the
\* row identifier of its sub-header, a later entry replacing an earlier one
\* of the same path.
ScansEntriesAfter(sc, header_size) ==
    LET n == Len(sc.offsets)
        named == {k \in 1 .. n : ~U32IsZero(EntryLength(sc, k))}
    IN  /\ n > 0 => sc.offsets[1] = header_size
        /\ \A k \in 1 .. n - 1 :
              sc.offsets[k + 1] = sc.offsets[k] + 8 + EntryLength(sc, k).low
        /\ n <= EntryCount(sc)
        /\ sc.ok =>
              /\ DOMAIN sc.index = {EntryPath(sc, k) : k \in named}
              /\ \A k \in named :
                    (\A l \in named : l > k => EntryPath(sc, l) # EntryPath(sc, k))
                        => /\ ~EntryRow(sc, k).wide
                           /\ sc.index[EntryPath(sc, k)] = EntryRow(sc, k).low
              /\ \/ n = EntryCount(sc)
                 \/ n = 0 /\ Len(sc.bytes) < header_size + 8
                 \/ n > 0 /\ Len(sc.bytes)
                                < sc.offsets[n] + 8 + EntryLength(sc, n).low + 8

\* C17 as stated: the scan takes the reverse-index file to start with a
\* header of the size of the master header, 24 bytes, and reads the first
\* sub-header at that offset.
C17_ScanAfterMasterHeader ==
    \A i \in 1 .. Len(scans) : ScansEntriesAfter(scans[i], 24)

\* C17: the scan takes the reverse-index file to start with a header of 12
\* bytes (magic, data size, entry count: the master header without its last
\* three fields) and reads the first sub-header at offset 12; each following
\* entry starts right after the string of the one before, and every entry maps
\* its path to the row identifier of its sub-header.
C17_ScanAfterTagHeader ==
    \A i \in 1 .. Len(scans) : ScansEntriesAfter(scans[i], 12)

\* A scan has read three entries, one of them of length zero, and mapped two
\* paths.
C17_Witness ==
    /\ Len(scans) = 1
    /\ scans[1].ok
    /\ scans[1].offsets = <<12, 22, 30>>
    /\ DOMAIN scans[1].index = {P_a, P_b}
    /\ scans[1].index[P_a] = 1
    /\ scans[1].index[P_b] = 0

-----------------------------------------------------------------------------
(* Durations *)

\* The 32-bit duration field of the master row the reverse index gives for a
\* path, as the file holds it.
StoredLengthOf(path) ==
    LET at == MASTER_HEADER_SIZE + IndexHeld[path] * ENTRY_SIZE + TAG_LENGTH * 4
    IN  read_i32(tagcache.v.endian, SubSeq(disk[MasterFile].bytes, at + 1, at + 4))

\* The get_track_info calls that returned a TrackInfo, in order.
FoundQueries ==
    LET found(q) == q.r.ok /\ q.r.v.some
    IN  SelectSeq(queried, found)

\* The track.scrobble requests sent.
ScrobbleRequestsSent == {k \in 1 .. Len(sent) : sent[k].method = "track.scrobble"}

DurationParams(request) ==
    {k \in 1 .. Len(request.params) : request.params[k].name = "duration"}

\* C15: whatever the stored 32-bit duration is (positive, zero or negative),
\* the duration_seconds of a returned TrackInfo is >= 0 and is the stored
\* milliseconds divided by 1000, truncated, when the stored value is not
\* negative; the record built from the TrackInfo carries that duration; and a
\* track.scrobble request carries a duration parameter, the decimal text of
\* the seconds, exactly when the duration of its record is > 0.
C15_DurationClamped ==
    /\ \A k \in 1 .. Len(FoundQueries) :
          LET info == FoundQueries[k].r.v.v
              stored == StoredLengthOf(playback_entries[FoundQueries[k].sample].path)
          IN  /\ info.duration_seconds >= 0
              /\ stored >= 0 => info.duration_seconds = stored \div 1000
              /\ stored < 0 => info.duration_seconds = 0
    /\ Len(built) = Len(FoundQueries)
    /\ \A k \in 1 .. Len(built) :
          built[k].duration = FoundQueries[k].r.v.v.duration_seconds
    /\ \A k \in ScrobbleRequestsSent :
          LET track == built[sent[k].track]
              durations == DurationParams(sent[k])
          IN  /\ track.duration > 0 <=> durations # {}
              /\ Cardinality(durations) <= 1
              /\ \A n \in durations :
                    sent[k].params[n].value = U32ToString(track.duration)

\* A record whose row stores -1000 ms has been submitted, without a duration
\* parameter.
C15_Witness ==
    /\ cmdPhase = "submitting"
    /\ Len(FoundQueries) >= 1
    /\ playback_entries[FoundQueries[1].sample].path = P_a
    /\ StoredLengthOf(P_a) = -1000
    /\ \E k \in ScrobbleRequestsSent :
          sent[k].track = 1 /\ DurationParams(sent[k]) = {}

-----------------------------------------------------------------------------
(* The truncation of playback.log *)

\* Every selected account was authenticated and every record was submitted
\* to it without failure.
RunSucceeded ==
    /\ pc = "done"
    /\ failures = 0
    /\ \A i \in 1 .. Len(accounts) :
          /\ acctState[i] = "Authenticated"
          /\ submitted[i] = Len(tracks)
          /\ counted[i] = 0

\* C18: handle_scrobble changes playback.log only by writing it empty, and
\* only after a successful run: not in a dry run, not with --no-truncate, not
\* when the command fails, and not when the run counted a failure (a failed
\* authentication, missing API keys, a failed record).
C18_TruncatesOnlyAfterSuccess ==
    [][raw' # raw =>
          /\ raw' = Ok(<<>>)
          /\ args.truncate
          /\ ~args.dry_run
          /\ cmdPhase' = "returned"
          /\ RunSucceeded]_vars

-----------------------------------------------------------------------------
(* The account list *)

\* The positions of the account the last call named, in the list before it.
Named == {i \in 1 .. Len(op.before) : IsAccount(op.before[i], op.service, op.username)}

DistinctPairs(list) ==
    \A i, j \in 1 .. Len(list) :
        i # j => ~IsAccount(list[i], list[j].service, list[j].username)

\* C19: from a configuration of distinct (service, username) pairs, every
\* sequence of add_account and remove_account calls leaves the pairs distinct.
\* add_account on a pair of the list replaces the digest of its account and
\* nothing else; on a new pair it appends one account; remove_account returns
\* true exactly when the pair was in the list, leaves the list without the
\* pair and the other accounts as they were, in their order.
C19_PairsStayDistinct ==
    /\ DistinctPairs(config.accounts)
    /\ op.name \in {"add", "remove"} => Cardinality(Named) <= 1
    /\ (op.name = "add" /\ Named # {}) =>
          /\ Len(config.accounts) = Len(op.before)
          /\ \A i \in 1 .. Len(op.before) :
                config.accounts[i] =
                    IF i \in Named
                    THEN Account(op.service, op.username, Md5Hex(op.password))
                    ELSE op.before[i]
    /\ (op.name = "add" /\ Named = {}) =>
          /\ Len(config.accounts) = Len(op.before) + 1
          /\ \A i \in 1 .. Len(op.before) : config.accounts[i] = op.before[i]
          /\ config.accounts[Len(config.accounts)] =
                Account(op.service, op.username, Md5Hex(op.password))
    /\ op.name = "remove" =>
          /\ op.returned <=> Named # {}
          /\ \A i \in 1 .. Len(config.accounts) :
                ~IsAccount(config.accounts[i], op.service, op.username)
          /\ Len(config.accounts) = Len(op.before) - Cardinality(Named)
          /\ \A i \in 1 .. Len(config.accounts) :
                config.accounts[i] =
                    IF \E n \in Named : n <= i THEN op.before[i + 1] ELSE op.before[i]

\* add_account has been called on the first of two accounts with a new
\* password.
C19_Witness ==
    /\ op.name = "add"
    /\ Len(op.before) = 2
    /\ Named = {1}
    /\ op.before[1].password_md5 # Md5Hex(op.password)
    /\ config.accounts[1].password_md5 = Md5Hex(op.password)

====
